---- MODULE Spec2Model ----
(***************************************************************************)
(* Model of cnc_machine_analysis.py: the table tokenizer                   *)
(* (ProductionHTMLParser), the field extractor (parse_cycle_time,          *)
(* extract_production_data), the aggregator (calculate_running_hours),     *)
(* the loop of main over the documents of a folder, and the item           *)
(* statistics of generate_html_report.                                     *)
(*                                                                         *)
(* Python's float is an IEEE-754 binary64.  The model keeps its rounding:  *)
(* a float is a sign, a 53-bit significand and a binary exponent, and      *)
(* every operation the code performs on floats (float(), *, /, +, -) is    *)
(* the exact result rounded to nearest, ties to even.  Significands do not *)
(* fit a 32-bit integer, so they are held as little-endian sequences       *)
(* of 15-bit limbs.  Infinities, NaN, subnormals and the sign of zero are  *)
(* outside the values the inputs below can produce and are not modelled.   *)
(***************************************************************************)
EXTENDS Integers, Sequences, FiniteSets, TLC

----------------------------------------------------------------------------
(* Evaluation.  An operator's arguments and the names of a LET are         *)
(* expressions, evaluated again at every use; With evaluates a value once  *)
(* and hands it on.  It changes what is computed nowhere.                  *)

With(v, F(_)) == CHOOSE r \in {F(x) : x \in {v}} : TRUE

With2(v, w, F(_, _)) == CHOOSE r \in {F(x, y) : x \in {v}, y \in {w}} : TRUE

----------------------------------------------------------------------------
(* Natural numbers of any size: little-endian limbs, no high zero limb.    *)

RECURSIVE Pow2(_)
Pow2(n) == IF n = 0 THEN 1 ELSE 2 * Pow2(n - 1)

Limb == Pow2(15)

RECURSIVE Pow10(_)
Pow10(n) == IF n = 0 THEN 1 ELSE 10 * Pow10(n - 1)

RECURSIVE BitLen(_)
BitLen(n) == IF n = 0 THEN 0 ELSE 1 + BitLen(n \div 2)

LimbBits == BitLen(Limb - 1)

\* a without its high zero limbs
BTrim(a0) ==
    With(a0, LAMBDA a :
        LET used == {i \in 1..Len(a) : a[i] # 0}
        IN  IF used = {} THEN <<>>
            ELSE SubSeq(a, 1, CHOOSE i \in used : \A j \in used : j <= i))

RECURSIVE BFromInt(_)
BFromInt(n) == IF n = 0 THEN <<>> ELSE <<n % Limb>> \o BFromInt(n \div Limb)

BLimb(a, i) == IF i <= Len(a) THEN a[i] ELSE 0

BBits(a) == IF a = <<>> THEN 0 ELSE LimbBits * (Len(a) - 1) + BitLen(a[Len(a)])

BIsOdd(a) == a # <<>> /\ a[1] % 2 = 1

\* the carries of a + b into limbs 1..i, as the sequence of the sums' limbs
RECURSIVE AddLimbs(_, _, _, _, _)
AddLimbs(a, b, i, n, carry) ==
    IF i > n THEN <<carry>>
    ELSE With(BLimb(a, i) + BLimb(b, i) + carry, LAMBDA t :
            <<t % Limb>> \o AddLimbs(a, b, i + 1, n, t \div Limb))

\* a + b
BAdd(a0, b0) ==
    With2(a0, b0, LAMBDA a, b :
        BTrim(AddLimbs(a, b, 1, IF Len(a) >= Len(b) THEN Len(a) ELSE Len(b), 0)))

RECURSIVE SubLimbs(_, _, _, _)
SubLimbs(a, b, i, borrow) ==
    IF i > Len(a) THEN <<>>
    ELSE With(BLimb(a, i) - BLimb(b, i) - borrow, LAMBDA t :
            <<(t + Limb) % Limb>> \o SubLimbs(a, b, i + 1, IF t < 0 THEN 1 ELSE 0))

\* a - b, for a >= b
BSub(a0, b0) == With2(a0, b0, LAMBDA a, b : BTrim(SubLimbs(a, b, 1, 0)))

\* -1, 0, 1 as a < b, a = b, a > b
BCmp(a0, b0) ==
    With2(a0, b0, LAMBDA a, b :
        IF Len(a) # Len(b) THEN (IF Len(a) < Len(b) THEN -1 ELSE 1)
        ELSE IF a = b THEN 0
        ELSE LET top == CHOOSE i \in 1..Len(a) :
                            a[i] # b[i] /\ \A j \in (i + 1)..Len(a) : a[j] = b[j]
             IN  IF a[top] < b[top] THEN -1 ELSE 1)

RECURSIVE MulLimbs(_, _, _, _)
MulLimbs(a, c, i, carry) ==
    IF i > Len(a) THEN <<carry>>
    ELSE With(a[i] * c + carry, LAMBDA t :
            <<t % Limb>> \o MulLimbs(a, c, i + 1, t \div Limb))

\* a * c, for 0 <= c < Limb
BMulS(a0, c0) == With2(a0, c0, LAMBDA a, c : BTrim(MulLimbs(a, c, 1, 0)))

\* the quotient's limbs i..1, high limb first, and the remainder last
RECURSIVE DivLimbs(_, _, _, _)
DivLimbs(a, d, i, rem) ==
    IF i = 0 THEN <<rem>>
    ELSE With(rem * Limb + a[i], LAMBDA t :
            <<t \div d>> \o DivLimbs(a, d, i - 1, t % d))

\* quotient and remainder of a by d, for 0 < d < Limb
BDivS(a0, d0) ==
    With2(a0, d0, LAMBDA a, d :
        With(DivLimbs(a, d, Len(a), 0), LAMBDA hi :
            [q |-> BTrim([i \in 1..Len(a) |-> hi[Len(a) + 1 - i]]),
             r |-> hi[Len(a) + 1]]))

\* a * 2^t
BShl(a0, t0) ==
    With2(a0, t0, LAMBDA a, t :
        IF a = <<>> THEN <<>>
        ELSE [i \in 1..(t \div LimbBits) |-> 0] \o BMulS(a, Pow2(t % LimbBits)))

\* floor(a / 2^t), and whether a nonzero remainder was dropped
BShr(a0, t0) ==
    With2(a0, t0, LAMBDA a, t :
        With(t \div LimbBits, LAMBDA w :
            With(BDivS(IF w >= Len(a) THEN <<>> ELSE SubSeq(a, w + 1, Len(a)),
                       Pow2(t % LimbBits)), LAMBDA d :
                [q |-> d.q,
                 sticky |-> d.r # 0 \/ \E i \in 1..Len(a) : i <= w /\ a[i] # 0])))

----------------------------------------------------------------------------
(* binary64: value = sg * m * 2^e with 2^52 <= m < 2^53, or m = 0.         *)

MantBits == 53

FZero == [sg |-> 1, m |-> <<>>, e |-> 0]

\* q * 2^E for a q of MantBits bits or, after a carry out of rounding, one more
FPack(sg, q, E) ==
    IF BBits(q) > MantBits THEN [sg |-> sg, m |-> BDivS(q, 2).q, e |-> E + 1]
    ELSE [sg |-> sg, m |-> q, e |-> E]

\* sg * (M * 2^E, plus something below its last bit when sticky), rounded to
\* nearest, ties to even
FRound(sg, M0, E, sticky) ==
    With(M0, LAMBDA M : With(BBits(M), LAMBDA n :
        IF n = 0 THEN FZero
        ELSE IF n <= MantBits
        THEN [sg |-> sg, m |-> BShl(M, MantBits - n), e |-> E - (MantBits - n)]
        ELSE With(BShr(M, n - MantBits - 1), LAMBDA sh :
                With(BDivS(sh.q, 2), LAMBDA half :
                    With(IF half.r = 1 /\ (sh.sticky \/ sticky \/ BIsOdd(half.q))
                         THEN BAdd(half.q, <<1>>) ELSE half.q, LAMBDA q :
                        FPack(sg, q, E + n - MantBits))))))

\* float(n) for an integer n
FFromInt(n) ==
    IF n < 0 THEN FRound(-1, BFromInt(-n), 0, FALSE)
    ELSE FRound(1, BFromInt(n), 0, FALSE)

\* x / d for a float x and an integer d # 0 (d converts exactly)
FDivInt(x0, d0) ==
    With2(x0, d0, LAMBDA x, d :
        With(BDivS(BShl(x.m, 2 * LimbBits), IF d < 0 THEN -d ELSE d), LAMBDA dv :
            FRound(IF d < 0 THEN -x.sg ELSE x.sg, dv.q, x.e - 2 * LimbBits, dv.r # 0)))

\* x * c for a float x and an integer c (c converts exactly)
FMulInt(x0, c0) ==
    With2(x0, c0, LAMBDA x, c :
        IF c = 0 THEN FZero
        ELSE FRound(IF c < 0 THEN -x.sg ELSE x.sg,
                    BMulS(x.m, IF c < 0 THEN -c ELSE c), x.e, FALSE))

FNeg(x0) == With(x0, LAMBDA x : IF x.m = <<>> THEN x ELSE [x EXCEPT !.sg = -x.sg])

\* x + y for two floats that are not zero
FAddAligned(x, y, lo) ==
    With2(BShl(x.m, x.e - lo), BShl(y.m, y.e - lo), LAMBDA mx, my :
        IF x.sg = y.sg THEN FRound(x.sg, BAdd(mx, my), lo, FALSE)
        ELSE With(BCmp(mx, my), LAMBDA c :
                IF c = 0 THEN FZero
                ELSE IF c > 0 THEN FRound(x.sg, BSub(mx, my), lo, FALSE)
                ELSE FRound(y.sg, BSub(my, mx), lo, FALSE)))

\* x + y
FAdd(x0, y0) ==
    With2(x0, y0, LAMBDA x, y :
        IF x.m = <<>> THEN y
        ELSE IF y.m = <<>> THEN x
        ELSE FAddAligned(x, y, IF x.e <= y.e THEN x.e ELSE y.e))

FSub(x, y) == FAdd(x, FNeg(y))

\* -1, 0, 1 as x < 0, x = 0, x > 0
FSign(x0) == With(x0, LAMBDA x : IF x.m = <<>> THEN 0 ELSE x.sg)

\* x < y, x <= y (the difference of two floats has the sign of its rounding)
FLt(x, y) == FSign(FSub(x, y)) < 0

FLe(x, y) == FSign(FSub(x, y)) <= 0

\* float(text) for a decimal numeral with integer value `digits` once its
\* point is removed and `frac` digits after the point: digits / 10^frac
FFromDecimal(digits, frac) == FDivInt(FFromInt(digits), Pow10(frac))

----------------------------------------------------------------------------
(* Text: a str is a sequence of one-character strings.                     *)

Digits == {"0", "1", "2", "3", "4", "5", "6", "7", "8", "9"}

Whitespace == {" ", "\t", "\n"}

DigitVal(c) ==
    CASE c = "0" -> 0 [] c = "1" -> 1 [] c = "2" -> 2 [] c = "3" -> 3
      [] c = "4" -> 4 [] c = "5" -> 5 [] c = "6" -> 6 [] c = "7" -> 7
      [] c = "8" -> 8 [] c = "9" -> 9

\* str.strip()
Strip(t0) ==
    With(t0, LAMBDA t :
        LET inked == {i \in 1..Len(t) : t[i] \notin Whitespace}
        IN  IF inked = {} THEN <<>>
            ELSE SubSeq(t, CHOOSE i \in inked : \A j \in inked : i <= j,
                           CHOOSE i \in inked : \A j \in inked : j <= i))

\* ''.join(chunks), from the i-th chunk on
RECURSIVE JoinFrom(_, _)
JoinFrom(chunks, i) ==
    IF i > Len(chunks) THEN <<>> ELSE chunks[i] \o JoinFrom(chunks, i + 1)

\* ''.join(chunks)
Join(chunks0) == With(chunks0, LAMBDA chunks : JoinFrom(chunks, 1))

\* str.replace(c, '') for a character c
Remove(t, c) == SelectSeq(t, LAMBDA ch : ch # c)

\* the value of the first n characters of a run of decimal digits
RECURSIVE DigitsValTo(_, _)
DigitsValTo(t, n) == IF n = 0 THEN 0 ELSE 10 * DigitsValTo(t, n - 1) + DigitVal(t[n])

\* the value of a run of decimal digits
DigitsVal(t0) == With(t0, LAMBDA t : DigitsValTo(t, Len(t)))

----------------------------------------------------------------------------
(* ProductionHTMLParser.  A row is a Python list, and parser.data holds    *)
(* references to row lists, not copies: rows live in `heap`, and           *)
(* current_row and the entries of data are indices into it.                *)

VARIABLES parser, fed, extract, agg, main, report, dash, disk, prep

vars == <<parser, fed, extract, agg, main, report, dash, disk, prep>>

\* a row needs this many cells to be kept
MinCells == 10

\* cells appended in one run of the tokenizer, at most
MaxCells == 12

\* text chunks and class attributes fed in one run of the tokenizer, at most
MaxFed == 2

\* current_td_class before the first <td>
NoneClass == "<None>"

Tags == {"tbody", "tr", "td", "table"}

\* attrs_dict.get('class', '') of the start tags fed
Classes == {"", "num"}

Chunks == {<<"M", "1">>, <<" ">>}

ParserInit ==
    [in_tbody |-> FALSE, in_tr |-> FALSE, in_td |-> FALSE,
     current_td_class |-> NoneClass, current_row |-> 1, current_cell |-> <<>>,
     td_count |-> 0, data |-> <<>>, heap |-> << <<>> >>]

\* the cells of the row a reference designates
RowOf(p, ref) == p.heap[ref]

\* parser.data as the caller reads it
DataRows(p) == [i \in 1..Len(p.data) |-> RowOf(p, p.data[i])]

\* self.current_row = []: a fresh list; the list it replaces lives on only
\* if data refers to it
NewRow(p) ==
    IF \E i \in 1..Len(p.data) : p.data[i] = p.current_row
    THEN [p EXCEPT !.heap = Append(p.heap, <<>>), !.current_row = Len(p.heap) + 1]
    ELSE [p EXCEPT !.heap[p.current_row] = <<>>]

\* handle_starttag with <tr> closing a row that is still open
handle_starttag_AutoClose(p, tag, class) ==
    IF tag = "tbody" THEN [p EXCEPT !.in_tbody = TRUE]
    ELSE IF tag = "tr" /\ p.in_tbody
    THEN IF p.in_tr /\ Len(RowOf(p, p.current_row)) >= MinCells
         THEN [p EXCEPT !.in_tr = TRUE, !.td_count = 0,
                        !.data = Append(p.data, p.current_row),
                        !.heap = Append(p.heap, <<>>), !.current_row = Len(p.heap) + 1]
         ELSE [NewRow(p) EXCEPT !.in_tr = TRUE, !.td_count = 0]
    ELSE IF tag = "td" /\ p.in_tr
    THEN [p EXCEPT !.in_td = TRUE, !.current_cell = <<>>, !.current_td_class = class]
    ELSE p

handle_starttag(p, tag, class) ==
    IF tag = "tbody" THEN [p EXCEPT !.in_tbody = TRUE]
    ELSE IF tag = "tr" /\ p.in_tbody
    THEN [NewRow(p) EXCEPT !.in_tr = TRUE, !.td_count = 0]
    ELSE IF tag = "td" /\ p.in_tr
    THEN [p EXCEPT !.in_td = TRUE, !.current_cell = <<>>, !.current_td_class = class]
    ELSE p

\* handle_endtag without the test on the row's length
handle_endtag_AnyLength(p, tag) ==
    IF tag = "tbody" THEN [p EXCEPT !.in_tbody = FALSE]
    ELSE IF tag = "tr" /\ p.in_tr
    THEN [p EXCEPT !.in_tr = FALSE, !.data = Append(p.data, p.current_row)]
    ELSE IF tag = "td" /\ p.in_td
    THEN [p EXCEPT !.in_td = FALSE,
                   !.heap[p.current_row] =
                       Append(@, [text |-> Strip(Join(p.current_cell)),
                                  class |-> p.current_td_class]),
                   !.td_count = @ + 1]
    ELSE p

handle_endtag(p, tag) ==
    IF tag = "tbody" THEN [p EXCEPT !.in_tbody = FALSE]
    ELSE IF tag = "tr" /\ p.in_tr
    THEN IF Len(RowOf(p, p.current_row)) >= MinCells
         THEN [p EXCEPT !.in_tr = FALSE, !.data = Append(p.data, p.current_row)]
         ELSE [p EXCEPT !.in_tr = FALSE]
    ELSE IF tag = "td" /\ p.in_td
    THEN [p EXCEPT !.in_td = FALSE,
                   !.heap[p.current_row] =
                       Append(@, [text |-> Strip(Join(p.current_cell)),
                                  class |-> p.current_td_class]),
                   !.td_count = @ + 1]
    ELSE p

handle_data(p, chunk) ==
    IF p.in_td THEN [p EXCEPT !.current_cell = Append(@, chunk)] ELSE p

----------------------------------------------------------------------------
(* Field extractor: parse_cycle_time and extract_production_data.          *)

\* no float: parse_cycle_time's None
FNone == [sg |-> 0, m |-> <<>>, e |-> 0]

NumChars == Digits \cup {"."}

\* int(text): optional blanks around, an optional sign, digits with single
\* underscores between them; anything else is a ValueError
PyInt(text) ==
    With(Strip(text), LAMBDA t :
        With(IF t # <<>> /\ t[1] \in {"-", "+"} THEN Tail(t) ELSE t, LAMBDA body :
            LET good == /\ body # <<>>
                        /\ \A i \in 1..Len(body) : body[i] \in Digits \cup {"_"}
                        /\ body[1] \in Digits /\ body[Len(body)] \in Digits
                        /\ \A i \in 1..(Len(body) - 1) :
                               ~(body[i] = "_" /\ body[i + 1] = "_")
                val  == DigitsVal(Remove(body, "_"))
            IN  IF good THEN [ok |-> TRUE, val |-> IF t[1] = "-" THEN -val ELSE val]
                ELSE [ok |-> FALSE, val |-> 0]))

\* the last index of the run of characters of `set` that starts at i
RECURSIVE RunEnd(_, _, _)
RunEnd(t, i, set) ==
    IF i < Len(t) /\ t[i + 1] \in set THEN RunEnd(t, i + 1, set) ELSE i

\* re.search(r'([\d.]+)\s*s', t): group 1 of the leftmost match, <<>> if none.
\* [\d.]+ is greedy and what follows it is no digit or point, so a match at i
\* takes the whole run of digits and points from i
CycleMatchAt(t, i) ==
    /\ t[i] \in NumChars
    /\ With(RunEnd(t, i, NumChars), LAMBDA j :
        With(IF j < Len(t) /\ t[j + 1] \in Whitespace
             THEN RunEnd(t, j + 1, Whitespace) ELSE j, LAMBDA k :
            k < Len(t) /\ t[k + 1] = "s"))

CycleMatch(t0) ==
    With(t0, LAMBDA t :
        With({i \in 1..Len(t) : CycleMatchAt(t, i)}, LAMBDA hits :
            IF hits = {} THEN <<>>
            ELSE With(CHOOSE h \in hits : \A g \in hits : h <= g, LAMBDA i :
                    SubSeq(t, i, RunEnd(t, i, NumChars)))))

\* whether float(g) accepts a text g of digits and points
IsFloatText(g) ==
    /\ Cardinality({i \in 1..Len(g) : g[i] = "."}) <= 1
    /\ \E i \in 1..Len(g) : g[i] \in Digits

\* float(g) for such a text
PyFloat(g) ==
    With({i \in 1..Len(g) : g[i] = "."}, LAMBDA dots :
        FFromDecimal(DigitsVal(Remove(g, ".")),
                     IF dots = {} THEN 0 ELSE Len(g) - (CHOOSE i \in dots : TRUE)))

\* the texts parse_cycle_time takes for an empty cell.  A character outside
\* ASCII is written by its code point: the first text is the three characters
\* the source spells its dash with
EmptyCycleTexts == {<<"U+201A", "U+00C4", "U+00EE">>, <<"-">>, <<"N", "/", "A">>, <<>>}

\* parse_cycle_time returning the number as it stands, not multiplied by 60
parse_cycle_time_Unscaled(cycle_time_str0) ==
    With(cycle_time_str0, LAMBDA cycle_time_str :
        IF cycle_time_str = <<>> \/ Strip(cycle_time_str) \in EmptyCycleTexts
        THEN [raised |-> FALSE, value |-> FNone]
        ELSE With(CycleMatch(cycle_time_str), LAMBDA g :
                IF g = <<>> THEN [raised |-> FALSE, value |-> FNone]
                ELSE IF ~IsFloatText(g) THEN [raised |-> TRUE, value |-> FNone]
                ELSE [raised |-> FALSE, value |-> PyFloat(g)]))

\* parse_cycle_time(cycle_time_str): the float returned (FNone for None), or
\* raised when float() raises ValueError
parse_cycle_time(cycle_time_str0) ==
    With(cycle_time_str0, LAMBDA cycle_time_str :
        IF cycle_time_str = <<>> \/ Strip(cycle_time_str) \in EmptyCycleTexts
        THEN [raised |-> FALSE, value |-> FNone]
        ELSE With(CycleMatch(cycle_time_str), LAMBDA g :
                IF g = <<>> THEN [raised |-> FALSE, value |-> FNone]
                ELSE IF ~IsFloatText(g) THEN [raised |-> TRUE, value |-> FNone]
                ELSE [raised |-> FALSE, value |-> FMulInt(PyFloat(g), 60)]))

Unknown == <<"U", "n", "k", "n", "o", "w", "n">>

\* the sample sentinel, 28800.0
SampleSeconds == FFromInt(28800)

\* re.search(r'\(S(\d)\)', operator) as f"S{digit}", or "Unknown"
ShiftOf(operator0) ==
    With(operator0, LAMBDA operator :
        With({i \in 1..(Len(operator) - 3) :
                /\ operator[i] = "(" /\ operator[i + 1] = "S"
                /\ operator[i + 2] \in Digits /\ operator[i + 3] = ")"}, LAMBDA hits :
            IF hits = {} THEN Unknown
            ELSE <<"S", operator[(CHOOSE h \in hits : \A g \in hits : h <= g) + 2]>>))

\* the date taken from the last run of 8 digits of the path
FileDate_LastRun(path0) ==
    With(path0, LAMBDA path :
        With({i \in 1..(Len(path) - 7) : \A j \in i..(i + 7) : path[j] \in Digits},
             LAMBDA hits :
            IF hits = {} THEN Unknown
            ELSE With(CHOOSE h \in hits : \A g \in hits : h >= g, LAMBDA i :
                    SubSeq(path, i, i + 3) \o <<"-">> \o SubSeq(path, i + 4, i + 5)
                    \o <<"-">> \o SubSeq(path, i + 6, i + 7))))

\* re.search(r'(\d{4})(\d{2})(\d{2})', path) as YYYY-MM-DD, or "Unknown"
FileDate(path0) ==
    With(path0, LAMBDA path :
        With({i \in 1..(Len(path) - 7) : \A j \in i..(i + 7) : path[j] \in Digits},
             LAMBDA hits :
            IF hits = {} THEN Unknown
            ELSE With(CHOOSE h \in hits : \A g \in hits : h <= g, LAMBDA i :
                    SubSeq(path, i, i + 3) \o <<"-">> \o SubSeq(path, i + 4, i + 5)
                    \o <<"-">> \o SubSeq(path, i + 6, i + 7))))

\* row[k]['text'] for Python's index k, or '' when the row is too short
CellText(row, k) == IF Len(row) > k THEN row[k + 1].text ELSE <<>>

\* the loop body with a row dropped when a count is not an integer
ExtractRow_BadCountDrops(row0, file_date) ==
    With2(row0, parse_cycle_time(CellText(row0, 7)), LAMBDA row, ct :
    With2(PyInt(Remove(CellText(row, 4), ",")), PyInt(Remove(CellText(row, 5), ",")),
          LAMBDA ok, nok :
        LET machine  == row[1].text
            operator == CellText(row, 10)
            rec == [date |-> file_date, machine |-> machine,
                    operation |-> CellText(row, 1), item |-> CellText(row, 2),
                    order |-> CellText(row, 3),
                    ok_parts |-> IF ok.ok THEN ok.val ELSE 0,
                    nok_parts |-> IF nok.ok THEN nok.val ELSE 0,
                    cycle_time |-> ct.value, operator |-> operator,
                    shift |-> ShiftOf(operator),
                    is_sample |-> (ct.value = SampleSeconds)]
        IN  IF Len(row) < MinCells
            THEN [raised |-> FALSE, emit |-> FALSE, record |-> rec]
            ELSE [raised |-> ct.raised,
                  emit   |-> /\ ~ct.raised /\ machine # <<>> /\ ct.value # FNone
                             /\ ok.ok /\ nok.ok,
                  record |-> rec]))

\* one pass of the loop body over a row of parser.data: whether the row is
\* skipped as too short, whether parse_cycle_time raised, whether a record is
\* appended, and the record
ExtractRow(row0, file_date) ==
    With2(row0, parse_cycle_time(CellText(row0, 7)), LAMBDA row, ct :
    With2(PyInt(Remove(CellText(row, 4), ",")), PyInt(Remove(CellText(row, 5), ",")),
          LAMBDA ok, nok :
        LET machine  == row[1].text
            operator == CellText(row, 10)
            rec == [date |-> file_date, machine |-> machine,
                    operation |-> CellText(row, 1), item |-> CellText(row, 2),
                    order |-> CellText(row, 3),
                    ok_parts |-> IF ok.ok THEN ok.val ELSE 0,
                    nok_parts |-> IF nok.ok THEN nok.val ELSE 0,
                    cycle_time |-> ct.value, operator |-> operator,
                    shift |-> ShiftOf(operator),
                    is_sample |-> (ct.value = SampleSeconds)]
        IN  IF Len(row) < MinCells
            THEN [raised |-> FALSE, emit |-> FALSE, record |-> rec]
            ELSE [raised |-> ct.raised,
                  emit   |-> ~ct.raised /\ machine # <<>> /\ ct.value # FNone,
                  record |-> rec]))

\* the loop of extract_production_data from row i on: the records, or raised
\* when a pass of the loop body raises
RECURSIVE ExtractFrom(_, _, _, _)
ExtractFrom(rows, i, file_date, records0) ==
    With(records0, LAMBDA records :
        IF i > Len(rows) THEN [raised |-> FALSE, records |-> records]
        ELSE With(ExtractRow(rows[i], file_date), LAMBDA r :
                IF r.raised THEN [raised |-> TRUE, records |-> <<>>]
                ELSE ExtractFrom(rows, i + 1, file_date,
                                 IF r.emit THEN Append(records, r.record) ELSE records)))

\* the body of the try block for a document: open() and read() raise for a
\* document that cannot be read
ExtractTry(doc) ==
    IF ~doc.readable THEN [raised |-> TRUE, records |-> <<>>]
    ELSE ExtractFrom(doc.rows, 1, FileDate(doc.path), <<>>)

\* extract_production_data with no except clause
extract_production_data_NoExcept(doc) == ExtractTry(doc)

\* extract_production_data(html_file): `except Exception` returns []
extract_production_data(doc) ==
    With(ExtractTry(doc), LAMBDA t :
        IF t.raised THEN [raised |-> FALSE, records |-> <<>>] ELSE t)

----------------------------------------------------------------------------
(* Aggregator: calculate_running_hours.  machine_stats is a dict: `keys`   *)
(* is its insertion order and `stats` its values.                          *)

\* the characters of the texts below, in code point order
Alphabet ==
    <<" ", "(", ")", ",", "-", ".", "/", "0", "1", "2", "3", "4", "5", "6", "7",
      "8", "9", "A", "B", "D", "E", "J", "M", "N", "O", "S", "U", "W", "a", "b", "c",
      "h", "k", "n", "o", "r", "s", "w", "x">>

Code(c) == CHOOSE i \in 1..Len(Alphabet) : Alphabet[i] = c

\* a < b for two str, as Python orders them
RECURSIVE StrLt(_, _)
StrLt(a, b) ==
    IF b = <<>> THEN FALSE
    ELSE IF a = <<>> THEN TRUE
    ELSE IF a[1] = b[1] THEN StrLt(Tail(a), Tail(b))
    ELSE Code(a[1]) < Code(b[1])

\* sorted(list(S)) for a set S of str
RECURSIVE Sorted(_)
Sorted(S0) ==
    With(S0, LAMBDA S :
        IF S = {} THEN <<>>
        ELSE With(CHOOSE x \in S : \A y \in S \ {x} : StrLt(x, y), LAMBDA least :
                <<least>> \o Sorted(S \ {least})))

\* the defaultdict's value for a machine seen for the first time
NewStats ==
    [total_parts |-> 0, total_parts_with_samples |-> 0, sample_parts |-> 0,
     total_seconds |-> FZero, total_seconds_with_samples |-> FZero,
     sample_seconds |-> FZero, has_samples |-> FALSE, records |-> <<>>,
     dates |-> {}, items |-> {}, shifts |-> {}, shift_counts |-> <<>>]

EmptyStats == [keys |-> <<>>, stats |-> <<>>]

\* the count of a shift set to 1 when the shift is seen, not incremented
Increment_Once(d, key) ==
    [k \in DOMAIN d \cup {key} |-> IF k = key THEN 1 ELSE d[k]]

\* the count of a shift left at the defaultdict's 0 when the shift is first
\* seen, and incremented from the second record on
Increment_FromZero(d, key) ==
    IF key \in DOMAIN d THEN [d EXCEPT ![key] = @ + 1]
    ELSE [k \in DOMAIN d \cup {key} |-> IF k = key THEN 0 ELSE d[k]]

\* d[key] += 1 on a defaultdict(int) held as a function
Increment(d, key) ==
    IF key \in DOMAIN d THEN [d EXCEPT ![key] = @ + 1]
    ELSE [k \in DOMAIN d \cup {key} |-> IF k = key THEN 1 ELSE d[k]]

\* the loop body with 28800 seconds added for every sample record
FoldRecord_SampleEachTime(ms0, record0) ==
    With2(ms0, record0, LAMBDA ms, record :
    With(IF record.machine \in DOMAIN ms.stats THEN ms.stats[record.machine]
         ELSE NewStats, LAMBDA old :
        LET machine == record.machine
            counted == [old EXCEPT !.shift_counts = Increment(@, record.shift)]
            timed   ==
                IF record.is_sample
                THEN [counted EXCEPT
                        !.sample_seconds = FAdd(@, SampleSeconds),
                        !.has_samples = TRUE,
                        !.sample_parts = @ + record.ok_parts]
                ELSE [counted EXCEPT
                        !.total_parts = @ + record.ok_parts,
                        !.total_seconds =
                            FAdd(@, FMulInt(record.cycle_time, record.ok_parts))]
            new     == [timed EXCEPT
                        !.total_parts_with_samples = @ + record.ok_parts,
                        !.dates = @ \cup {record.date},
                        !.items = @ \cup {record.item},
                        !.shifts = @ \cup {record.shift},
                        !.records = Append(@, record)]
        IN  [keys  |-> IF machine \in DOMAIN ms.stats THEN ms.keys
                       ELSE Append(ms.keys, machine),
             stats |-> With(new, LAMBDA n :
                          [k \in DOMAIN ms.stats \cup {machine} |->
                              IF k = machine THEN n ELSE ms.stats[k]])]))

\* the loop body with sample_parts set to the last sample's parts
FoldRecord_LastSampleParts(ms0, record0) ==
    With2(ms0, record0, LAMBDA ms, record :
    With(IF record.machine \in DOMAIN ms.stats THEN ms.stats[record.machine]
         ELSE NewStats, LAMBDA old :
        LET machine == record.machine
            counted == [old EXCEPT !.shift_counts = Increment(@, record.shift)]
            timed   ==
                IF record.is_sample
                THEN [counted EXCEPT
                        !.sample_seconds = IF old.has_samples THEN @ ELSE SampleSeconds,
                        !.has_samples = TRUE,
                        !.sample_parts = record.ok_parts]
                ELSE [counted EXCEPT
                        !.total_parts = @ + record.ok_parts,
                        !.total_seconds =
                            FAdd(@, FMulInt(record.cycle_time, record.ok_parts))]
            new     == [timed EXCEPT
                        !.total_parts_with_samples = @ + record.ok_parts,
                        !.dates = @ \cup {record.date},
                        !.items = @ \cup {record.item},
                        !.shifts = @ \cup {record.shift},
                        !.records = Append(@, record)]
        IN  [keys  |-> IF machine \in DOMAIN ms.stats THEN ms.keys
                       ELSE Append(ms.keys, machine),
             stats |-> With(new, LAMBDA n :
                          [k \in DOMAIN ms.stats \cup {machine} |->
                              IF k = machine THEN n ELSE ms.stats[k]])]))

\* the loop body with a sample record timed like any other record
FoldRecord_SampleAsProduction(ms0, record0) ==
    With2(ms0, record0, LAMBDA ms, record :
    With(IF record.machine \in DOMAIN ms.stats THEN ms.stats[record.machine]
         ELSE NewStats, LAMBDA old :
        LET machine == record.machine
            counted == [old EXCEPT !.shift_counts = Increment(@, record.shift)]
            sampled ==
                IF record.is_sample
                THEN [counted EXCEPT
                        !.sample_seconds = IF old.has_samples THEN @ ELSE SampleSeconds,
                        !.has_samples = TRUE,
                        !.sample_parts = @ + record.ok_parts]
                ELSE counted
            new     == [sampled EXCEPT
                        !.total_parts = @ + record.ok_parts,
                        !.total_seconds =
                            FAdd(@, FMulInt(record.cycle_time, record.ok_parts)),
                        !.total_parts_with_samples = @ + record.ok_parts,
                        !.dates = @ \cup {record.date},
                        !.items = @ \cup {record.item},
                        !.shifts = @ \cup {record.shift},
                        !.records = Append(@, record)]
        IN  [keys  |-> IF machine \in DOMAIN ms.stats THEN ms.keys
                       ELSE Append(ms.keys, machine),
             stats |-> With(new, LAMBDA n :
                          [k \in DOMAIN ms.stats \cup {machine} |->
                              IF k = machine THEN n ELSE ms.stats[k]])]))

\* the loop body for one record
FoldRecord(ms0, record0) ==
    With2(ms0, record0, LAMBDA ms, record :
    With(IF record.machine \in DOMAIN ms.stats THEN ms.stats[record.machine]
         ELSE NewStats, LAMBDA old :
        LET machine == record.machine
            counted == [old EXCEPT !.shift_counts = Increment(@, record.shift)]
            timed   ==
                IF record.is_sample
                THEN [counted EXCEPT
                        !.sample_seconds = IF old.has_samples THEN @ ELSE SampleSeconds,
                        !.has_samples = TRUE,
                        !.sample_parts = @ + record.ok_parts]
                ELSE [counted EXCEPT
                        !.total_parts = @ + record.ok_parts,
                        !.total_seconds =
                            FAdd(@, FMulInt(record.cycle_time, record.ok_parts))]
            new     == [timed EXCEPT
                        !.total_parts_with_samples = @ + record.ok_parts,
                        !.dates = @ \cup {record.date},
                        !.items = @ \cup {record.item},
                        !.shifts = @ \cup {record.shift},
                        !.records = Append(@, record)]
        IN  [keys  |-> IF machine \in DOMAIN ms.stats THEN ms.keys
                       ELSE Append(ms.keys, machine),
             stats |-> With(new, LAMBDA n :
                          [k \in DOMAIN ms.stats \cup {machine} |->
                              IF k = machine THEN n ELSE ms.stats[k]])]))

\* sum(d.values())
RECURSIVE SumOver(_, _)
SumOver(d, keys) ==
    IF keys = {} THEN 0
    ELSE With(CHOOSE x \in keys : TRUE, LAMBDA k : d[k] + SumOver(d, keys \ {k}))

SumValues(d0) == With(d0, LAMBDA d : SumOver(d, DOMAIN d))

\* the difference as it is, without the floor at 0
Max0_NoFloor(x0) == x0

\* max(0, x): x when x > 0, and 0 otherwise
Max0(x0) == With(x0, LAMBDA x : IF FLt(FZero, x) THEN x ELSE FZero)

\* the second loop's body with total_hours_with_samples taken from
\* total_seconds alone
FinalizeStats_HoursWithoutSamples(stats0) ==
    With(stats0, LAMBDA stats :
    With2(FDivInt(stats.total_seconds, 3600),
          SumValues(stats.shift_counts) * 8,
          LAMBDA total_hours_with_samples, available_hours :
    With(IF available_hours > 0
         THEN FMulInt(FDivInt(total_hours_with_samples, available_hours), 100)
         ELSE FZero, LAMBDA availability_percent :
        [total_parts |-> stats.total_parts,
         total_parts_with_samples |-> stats.total_parts_with_samples,
         sample_parts |-> stats.sample_parts,
         total_seconds |-> stats.total_seconds,
         total_seconds_with_samples |-> stats.total_seconds_with_samples,
         sample_seconds |-> stats.sample_seconds,
         has_samples |-> stats.has_samples,
         records |-> stats.records,
         shift_counts |-> stats.shift_counts,
         total_hours |-> FDivInt(stats.total_seconds, 3600),
         sample_hours |-> FDivInt(stats.sample_seconds, 3600),
         total_hours_with_samples |-> total_hours_with_samples,
         available_capacity |-> available_hours,
         downtime_hours |->
             Max0(FSub(FFromInt(available_hours), total_hours_with_samples)),
         availability_percent |-> availability_percent,
         downtime_percent |-> FSub(FFromInt(100), availability_percent),
         dates |-> Sorted(stats.dates),
         items |-> Sorted(stats.items),
         shifts |-> Sorted(stats.shifts)])))

\* the second loop's body with availability_percent taken from the production
\* hours, samples left out
FinalizeStats_PercentOfProduction(stats0) ==
    With(stats0, LAMBDA stats :
    With2(FDivInt(FAdd(stats.total_seconds, stats.sample_seconds), 3600),
          SumValues(stats.shift_counts) * 8,
          LAMBDA total_hours_with_samples, available_hours :
    With(IF available_hours > 0
         THEN FMulInt(FDivInt(FDivInt(stats.total_seconds, 3600), available_hours), 100)
         ELSE FZero, LAMBDA availability_percent :
        [total_parts |-> stats.total_parts,
         total_parts_with_samples |-> stats.total_parts_with_samples,
         sample_parts |-> stats.sample_parts,
         total_seconds |-> stats.total_seconds,
         total_seconds_with_samples |-> stats.total_seconds_with_samples,
         sample_seconds |-> stats.sample_seconds,
         has_samples |-> stats.has_samples,
         records |-> stats.records,
         shift_counts |-> stats.shift_counts,
         total_hours |-> FDivInt(stats.total_seconds, 3600),
         sample_hours |-> FDivInt(stats.sample_seconds, 3600),
         total_hours_with_samples |-> total_hours_with_samples,
         available_capacity |-> available_hours,
         downtime_hours |->
             Max0(FSub(FFromInt(available_hours), total_hours_with_samples)),
         availability_percent |-> availability_percent,
         downtime_percent |-> FSub(FFromInt(100), availability_percent),
         dates |-> Sorted(stats.dates),
         items |-> Sorted(stats.items),
         shifts |-> Sorted(stats.shifts)])))

\* the second loop's body for one machine's stats
FinalizeStats(stats0) ==
    With(stats0, LAMBDA stats :
    With2(FDivInt(FAdd(stats.total_seconds, stats.sample_seconds), 3600),
          SumValues(stats.shift_counts) * 8,
          LAMBDA total_hours_with_samples, available_hours :
    With(IF available_hours > 0
         THEN FMulInt(FDivInt(total_hours_with_samples, available_hours), 100)
         ELSE FZero, LAMBDA availability_percent :
        [total_parts |-> stats.total_parts,
         total_parts_with_samples |-> stats.total_parts_with_samples,
         sample_parts |-> stats.sample_parts,
         total_seconds |-> stats.total_seconds,
         total_seconds_with_samples |-> stats.total_seconds_with_samples,
         sample_seconds |-> stats.sample_seconds,
         has_samples |-> stats.has_samples,
         records |-> stats.records,
         shift_counts |-> stats.shift_counts,
         total_hours |-> FDivInt(stats.total_seconds, 3600),
         sample_hours |-> FDivInt(stats.sample_seconds, 3600),
         total_hours_with_samples |-> total_hours_with_samples,
         available_capacity |-> available_hours,
         downtime_hours |->
             Max0(FSub(FFromInt(available_hours), total_hours_with_samples)),
         availability_percent |-> availability_percent,
         downtime_percent |-> FSub(FFromInt(100), availability_percent),
         dates |-> Sorted(stats.dates),
         items |-> Sorted(stats.items),
         shifts |-> Sorted(stats.shifts)])))

Finalize(ms) ==
    [keys |-> ms.keys, stats |-> [k \in DOMAIN ms.stats |-> FinalizeStats(ms.stats[k])]]

RECURSIVE Fold(_, _)
Fold(ms, records) ==
    IF records = <<>> THEN ms ELSE Fold(FoldRecord(ms, Head(records)), Tail(records))

calculate_running_hours(records) == Finalize(Fold(EmptyStats, records))

----------------------------------------------------------------------------
(* Inputs.                                                                 *)

\* rows of one document handed to the extractor, at most
MaxRows == 2

\* records handed to the aggregator, at most
MaxRecords == 3

Cell(text) == [text |-> text, class |-> ""]

\* a table row in the 11-column layout; without its operator cell it has 10
MkRow(machine, item, ok, nok, cycle, operator, with_operator) ==
    LET ten == <<Cell(machine), Cell(<<"O", "P", "1", "0">>), Cell(item), Cell(<<"4", "7", "1", "1">>),
                 Cell(ok), Cell(nok), Cell(<<"9", "8", "%">>), Cell(cycle),
                 Cell(<<"0", ".", "5", "h">>), Cell(<<"8", "5", "%">>)>>
    IN  IF with_operator THEN Append(ten, Cell(operator)) ELSE ten

M1 == <<"M", "1">>

M2 == <<"M", "2">>

ItemA == <<"A">>

ItemB == <<"B">>

DoeS1 == <<"D", "o", "e", " ", "(", "S", "1", ")">>

DoeS2 == <<"D", "o", "e", " ", "(", "S", "2", ")">>

Doe == <<"D", "o", "e">>

\* OK-parts and NOK-parts cells
Txt12 == <<"1", "2">>

Txt3 == <<"3">>

TxtThousands == <<"1", ",", "2", "5", "0">>

TxtWord == <<"a", "b", "c">>

TxtMinus5 == <<"-", "5">>

TxtMinus2 == <<"-", "2">>

\* cycle-time cells
Ct1p5 == <<"1", ".", "5", "s">>

Ct480 == <<"4", "8", "0", "s">>

Ct480p0 == <<"4", "8", "0", ".", "0", "s">>

Ct4p1 == <<"4", ".", "1", "s">>

Ct0p2 == <<"0", ".", "2", "s">>

Ct2p3 == <<"2", ".", "3", "s">>

Ct479p9 == <<"4", "7", "9", ".", "9", "s">>

Ct9p9 == <<"9", ".", "9", "s">>

CtHyphen == <<"-">>

\* an em-dash, by its code point
CtEmDash == <<"U+2014">>

CtNA == <<"N", "/", "A">>

CtNoUnit == <<"1", "2">>

CtSpaced == <<"c", "a", " ", "2", ".", "5", " ", "s">>

CtTwoPoints == <<"1", ".", "2", ".", "3", "s">>

CtPointOnly == <<"a", "b", "c", ".", "s">>

\* the rows a document is drawn from: every combination of an OK-parts cell and
\* a cycle-time cell, rows without a machine, and the variations of one cell
\* of a plain row
RowSet ==
    {MkRow(M1, ItemA, ok, Txt3, ct, DoeS2, TRUE) :
        ok \in {Txt12, TxtWord, TxtMinus5},
        ct \in {Ct1p5, Ct480p0, CtHyphen, CtTwoPoints}}
    \cup {MkRow(<<>>, ItemA, Txt12, Txt3, ct, DoeS2, TRUE) : ct \in {Ct1p5, CtTwoPoints}}
    \cup {MkRow(M1, ItemB, Txt12, nok, Ct1p5, DoeS2, TRUE) :
            nok \in {TxtWord, TxtMinus2, TxtThousands}}
    \cup {MkRow(M2, ItemB, TxtThousands, Txt3, ct, DoeS1, TRUE) :
            ct \in {Ct480, Ct479p9, Ct4p1, CtNA, CtEmDash, CtNoUnit, CtSpaced, CtPointOnly,
                    <<>>}}
    \cup {MkRow(M2, ItemA, Txt12, Txt3, Ct1p5, Doe, TRUE),
          MkRow(M2, ItemA, Txt12, Txt3, Ct1p5, <<>>, FALSE)}

\* the paths a document is read from
PathTwoRuns ==
    <<"2", "0", "2", "3", "1", "2", "0", "1", "/", "r", "2", "0", "2", "4", "0", "1", "1", "5">>

FileSet ==
    {<<"i", "n", "/", "r", "2", "0", "2", "4", "0", "1", "1", "5", ".", "h", "t", "m", "l">>,
     <<"i", "n", "/", "r", "e", "p", "o", "r", "t", ".", "h", "t", "m", "l">>,
     PathTwoRuns}

\* the sequences over S of length at most n
RECURSIVE SeqsUpTo(_, _)
SeqsUpTo(S, n) ==
    IF n = 0 THEN {<<>>}
    ELSE With2(S, SeqsUpTo(S, n - 1), LAMBDA T, shorter :
            shorter \cup {Append(q, x) : q \in shorter, x \in T})

\* the records the aggregator is given: records the extractor returns
RecordOf(machine, item, ok, cycle, operator, path) ==
    ExtractRow(MkRow(machine, item, ok, Txt3, cycle, operator, TRUE), FileDate(path)).record

\* one machine's records of a month: two whose float products do not add up
\* the same in either order, two samples, a negative count, and one that runs
\* longer than its shift
RecordsM1 ==
    {RecordOf(M1, r[1], r[2], r[3], r[4], r[5]) :
        r \in {<<ItemA, <<"1">>, Ct0p2, DoeS1, <<"r", "2", "0", "2", "4", "0", "1", "1", "5">>>>,
               <<ItemB, <<"1">>, Ct4p1, DoeS2, <<"r", "2", "0", "2", "4", "0", "1", "1", "5">>>>,
               <<ItemA, <<"3">>, Ct480, DoeS1, <<"r", "2", "0", "2", "4", "0", "1", "1", "6">>>>,
               <<ItemB, <<"2">>, Ct480p0, Doe, <<"r", "e", "p", "o", "r", "t">>>>,
               <<ItemA, TxtMinus5, Ct1p5, DoeS1, <<"r", "2", "0", "2", "4", "0", "1", "1", "5">>>>,
               <<ItemB, <<"2", "5", "0">>, Ct9p9, DoeS2, <<"r", "2", "0", "2", "4", "0", "1", "1", "6">>>>}}

\* a second machine's records: a sample, and four parts at "2.3s", whose 552
\* seconds and the sample's 28800 do not give the same hours added before the
\* division by 3600 as after it
RecordsM2 ==
    {RecordOf(M2, r[1], r[2], r[3], r[4], r[5]) :
        r \in {<<ItemB, <<"4">>, Ct2p3, DoeS2, <<"r", "2", "0", "2", "4", "0", "1", "1", "5">>>>,
               <<ItemA, <<"3">>, Ct480, DoeS1, <<"r", "2", "0", "2", "4", "0", "1", "1", "6">>>>}}

RecordSet == RecordsM1 \cup RecordsM2

----------------------------------------------------------------------------
(* The components as state machines.                                       *)

ExtractIdle ==
    [pc |-> "idle", html_file |-> <<>>, rows |-> <<>>, i |-> 1, records |-> <<>>,
     result |-> <<>>]

AggIdle == [pc |-> "idle", records |-> <<>>, i |-> 1, machine_stats |-> EmptyStats]

\* cells held by all the rows of the heap
RECURSIVE CellsFrom(_, _)
CellsFrom(heap, i) == IF i > Len(heap) THEN 0 ELSE Len(heap[i]) + CellsFrom(heap, i + 1)

TotalCells(heap) == CellsFrom(heap, 1)

Tokenizing ==
    /\ extract.pc = "idle" /\ agg.pc = "idle" /\ main.pc = "idle" /\ report.pc = "idle"
    /\ dash.pc = "idle" /\ disk.pc = "idle" /\ prep.pc = "idle"

\* the tokenizer is handed a start tag
StartTag ==
    /\ Tokenizing
    /\ \E tag \in Tags, class \in Classes :
        /\ class # "" => tag = "td" /\ fed < MaxFed
        /\ parser' = handle_starttag(parser, tag, class)
        /\ fed' = IF class # "" THEN fed + 1 ELSE fed
    /\ UNCHANGED <<extract, agg, main, report, dash, disk, prep>>

\* the tokenizer is handed an end tag
EndTag ==
    /\ Tokenizing
    /\ \E tag \in Tags :
        /\ tag = "td" /\ parser.in_td => TotalCells(parser.heap) < MaxCells
        /\ parser' = handle_endtag(parser, tag)
    /\ UNCHANGED <<fed, extract, agg, main, report, dash, disk, prep>>

\* the tokenizer is handed a chunk of text
Data ==
    /\ Tokenizing
    /\ fed < MaxFed
    /\ \E chunk \in Chunks : parser' = handle_data(parser, chunk)
    /\ fed' = fed + 1
    /\ UNCHANGED <<extract, agg, main, report, dash, disk, prep>>

\* extract_production_data, one pass of its loop over parser.data; a
\* ValueError out of parse_cycle_time ends the function in its except clause,
\* which returns []
ExtractLoop ==
    /\ extract.pc = "loop"
    /\ extract.i <= Len(extract.rows)
    /\ extract' =
         With(ExtractRow(extract.rows[extract.i], FileDate(extract.html_file)), LAMBDA r :
           IF r.raised THEN [extract EXCEPT !.pc = "done", !.result = <<>>]
           ELSE IF r.emit
           THEN [extract EXCEPT !.i = @ + 1, !.records = Append(@, r.record)]
           ELSE [extract EXCEPT !.i = @ + 1])
    /\ UNCHANGED <<parser, fed, agg, main, report, dash, disk, prep>>

\* extract_production_data returns records
ExtractReturn ==
    /\ extract.pc = "loop"
    /\ extract.i > Len(extract.rows)
    /\ extract' = [extract EXCEPT !.pc = "done", !.result = extract.records]
    /\ UNCHANGED <<parser, fed, agg, main, report, dash, disk, prep>>

\* calculate_running_hours, one pass of its first loop
AggFold ==
    /\ agg.pc = "fold"
    /\ agg.i <= Len(agg.records)
    /\ agg' = [agg EXCEPT !.i = @ + 1,
                          !.machine_stats = FoldRecord(@, agg.records[agg.i])]
    /\ UNCHANGED <<parser, fed, extract, main, report, dash, disk, prep>>

\* calculate_running_hours, its second loop and its return
AggFinalize ==
    /\ agg.pc = "fold"
    /\ agg.i > Len(agg.records)
    /\ agg' = [agg EXCEPT !.pc = "done", !.machine_stats = Finalize(@)]
    /\ UNCHANGED <<parser, fed, extract, main, report, dash, disk, prep>>

\* main: the files found in the input folder, the loop over them, and the
\* reports written.  A document is its path, whether it can be opened and
\* read, and the rows the tokenizer gives for it.
MaxFiles == 2

Doc(path, readable, rows) == [path |-> path, readable |-> readable, rows |-> rows]

Path15 == <<"i", "n", "/", "r", "2", "0", "2", "4", "0", "1", "1", "5", ".", "h", "t", "m", "l">>

PathPlain == <<"i", "n", "/", "r", "e", "p", "o", "r", "t", ".", "h", "t", "m", "l">>

\* documents: one that cannot be read, one without rows, one whose only row
\* has no cycle time, two with records, and one with a row on which
\* parse_cycle_time raises
DocSet ==
    {Doc(Path15, FALSE, <<>>),
     Doc(PathPlain, TRUE, <<>>),
     Doc(Path15, TRUE, <<MkRow(M1, ItemA, Txt12, Txt3, CtHyphen, DoeS2, TRUE)>>),
     Doc(Path15, TRUE, <<MkRow(M1, ItemA, Txt12, Txt3, Ct1p5, DoeS2, TRUE)>>),
     Doc(PathPlain, TRUE, <<MkRow(M2, ItemB, TxtThousands, Txt3, Ct479p9, DoeS1, TRUE),
                            MkRow(M2, ItemB, TxtThousands, Txt3, Ct480, DoeS1, TRUE)>>),
     Doc(Path15, TRUE, <<MkRow(M1, ItemA, Txt12, Txt3, Ct1p5, DoeS2, TRUE),
                         MkRow(M1, ItemA, Txt12, Txt3, CtTwoPoints, DoeS2, TRUE)>>)}

Reports == {"html", "txt", "json"}

MainIdle ==
    [pc |-> "idle", folder |-> "", html_files |-> <<>>, output_ok |-> FALSE, i |-> 1,
     all_records |-> <<>>, machine_stats |-> EmptyStats, message |-> "", written |-> {}]

\* main up to its loop: the input folder is asked for and looked up, and the
\* files in it are listed
MainStart ==
    /\ main.pc = "start"
    /\ main' =
         IF main.folder = ""
         THEN [main EXCEPT !.pc = "done", !.message = "No folder selected"]
         ELSE IF main.folder = "missing"
         THEN [main EXCEPT !.pc = "done", !.message = "Folder not found"]
         ELSE IF main.html_files = <<>>
         THEN [main EXCEPT !.pc = "done", !.message = "No HTML files found"]
         ELSE [main EXCEPT !.pc = "parse"]
    /\ UNCHANGED <<parser, fed, extract, agg, report, dash, disk, prep>>

\* main, one pass of its loop over html_files; an exception out of
\* extract_production_data is caught nowhere in main
MainParse ==
    /\ main.pc = "parse"
    /\ main.i <= Len(main.html_files)
    /\ main' =
         With(extract_production_data(main.html_files[main.i]), LAMBDA r :
            IF r.raised THEN [main EXCEPT !.pc = "crashed"]
            ELSE [main EXCEPT !.i = @ + 1, !.all_records = @ \o r.records])
    /\ UNCHANGED <<parser, fed, extract, agg, report, dash, disk, prep>>

\* main after its loop: the statistics are computed, the output folder is made
\* and the three reports are written
MainReport ==
    /\ main.pc = "parse"
    /\ main.i > Len(main.html_files)
    /\ main' =
         With(calculate_running_hours(main.all_records), LAMBDA stats :
            IF ~main.output_ok
            THEN [main EXCEPT !.pc = "done", !.machine_stats = stats,
                              !.message = "Could not create output folder"]
            ELSE [main EXCEPT !.pc = "done", !.machine_stats = stats,
                              !.message = "Analysis complete", !.written = Reports])
    /\ UNCHANGED <<parser, fed, extract, agg, report, dash, disk, prep>>

\* generate_html_report, its item statistics: item_stats is a dict held as
\* machine_stats is, and `todo` is the order the two nested loops visit the
\* records in, machine by machine.
ReportIdle ==
    [pc |-> "idle", machine_stats |-> EmptyStats, todo |-> <<>>, i |-> 1,
     item_stats |-> EmptyStats, sorted_items |-> <<>>]

NewItem ==
    [machines |-> {}, total_parts |-> 0, total_hours |-> FZero, is_sample |-> FALSE,
     cycle_times |-> {}]

\* the records of the machines from the k-th key on, each with its machine
RECURSIVE Visits(_, _)
Visits(ms, k) ==
    IF k > Len(ms.keys) THEN <<>>
    ELSE [i \in 1..Len(ms.stats[ms.keys[k]].records) |->
             [machine |-> ms.keys[k], record |-> ms.stats[ms.keys[k]].records[i]]]
         \o Visits(ms, k + 1)

\* the loop body with a sample record counted like any other record
ItemFold_SamplesCounted(is0, machine, record0) ==
    With2(is0, record0, LAMBDA is, record :
    With(IF record.item \in DOMAIN is.stats THEN is.stats[record.item] ELSE NewItem,
         LAMBDA old :
        LET item == record.item
            new  == [old EXCEPT
                       !.machines = @ \cup {machine},
                       !.cycle_times = @ \cup {record.cycle_time},
                       !.total_parts = @ + record.ok_parts,
                       !.total_hours =
                           FAdd(@, FDivInt(FMulInt(record.cycle_time, record.ok_parts),
                                           3600)),
                       !.is_sample = @ \/ record.is_sample]
        IN  [keys  |-> IF item \in DOMAIN is.stats THEN is.keys ELSE Append(is.keys, item),
             stats |-> With(new, LAMBDA n :
                          [k \in DOMAIN is.stats \cup {item} |->
                              IF k = item THEN n ELSE is.stats[k]])]))

\* the body of the inner loop for one record of one machine
ItemFold(is0, machine, record0) ==
    With2(is0, record0, LAMBDA is, record :
    With(IF record.item \in DOMAIN is.stats THEN is.stats[record.item] ELSE NewItem,
         LAMBDA old :
        LET item == record.item
            new  == [old EXCEPT
                       !.machines = @ \cup {machine},
                       !.cycle_times = @ \cup {record.cycle_time},
                       !.total_parts =
                           IF record.is_sample THEN @ ELSE @ + record.ok_parts,
                       !.total_hours =
                           IF record.is_sample THEN @
                           ELSE FAdd(@, FDivInt(FMulInt(record.cycle_time,
                                                        record.ok_parts), 3600)),
                       !.is_sample = @ \/ record.is_sample]
        IN  [keys  |-> IF item \in DOMAIN is.stats THEN is.keys ELSE Append(is.keys, item),
             stats |-> With(new, LAMBDA n :
                          [k \in DOMAIN is.stats \cup {item} |->
                              IF k = item THEN n ELSE is.stats[k]])]))

\* sorted(item_stats.items(), key=total_hours, reverse=True): the keys by
\* falling total_hours, keys with equal hours in the order of the dict
SortedItems(is0) ==
    With(is0, LAMBDA is :
        LET before(a, b) ==
                \/ FLt(is.stats[is.keys[b]].total_hours, is.stats[is.keys[a]].total_hours)
                \/ /\ is.stats[is.keys[a]].total_hours = is.stats[is.keys[b]].total_hours
                   /\ a < b
            place(a) == 1 + Cardinality({b \in 1..Len(is.keys) : before(b, a)})
        IN  [n \in 1..Len(is.keys) |->
                is.keys[CHOOSE a \in 1..Len(is.keys) : place(a) = n]])

\* generate_html_report, one pass of the inner loop over a machine's records
ReportItem ==
    /\ report.pc = "items"
    /\ report.i <= Len(report.todo)
    /\ report' = [report EXCEPT
                    !.i = @ + 1,
                    !.item_stats = ItemFold(@, report.todo[report.i].machine,
                                            report.todo[report.i].record)]
    /\ UNCHANGED <<parser, fed, extract, agg, main, dash, disk, prep>>

\* generate_html_report, the items sorted once the loops are over
ReportSort ==
    /\ report.pc = "items"
    /\ report.i > Len(report.todo)
    /\ report' = [report EXCEPT !.pc = "done",
                                !.sorted_items = SortedItems(report.item_stats)]
    /\ UNCHANGED <<parser, fed, extract, agg, main, dash, disk, prep>>

----------------------------------------------------------------------------
(* The dashboard page generate_html_report writes: what Python renders     *)
(* into it, and the handlers of its script.  A JavaScript number is a      *)
(* binary64, as Python's float is, or NaN; a property that an object does  *)
(* not have reads as undefined.                                            *)

NaN == [sg |-> 0, m |-> <<>>, e |-> 1]

Undefined == [sg |-> 0, m |-> <<>>, e |-> -1]

\* x + y of JavaScript: NaN when an operand is NaN or undefined
JsAdd(x0, y0) ==
    With2(x0, y0, LAMBDA x, y : IF x.sg = 0 \/ y.sg = 0 THEN NaN ELSE FAdd(x, y))

\* x - y of JavaScript
JsSub(x0, y0) ==
    With2(x0, y0, LAMBDA x, y : IF x.sg = 0 \/ y.sg = 0 THEN NaN ELSE FSub(x, y))

\* x / d * 100 of JavaScript for an integer d > 0
JsPercent(x0, d) == With(x0, LAMBDA x : IF x.sg = 0 THEN NaN ELSE FMulInt(FDivInt(x, d), 100))

\* obj[name], undefined for a property obj does not have
Prop(obj, name) == IF name \in DOMAIN obj THEN obj[name] ELSE Undefined

\* the integer a sequence of limbs holds
RECURSIVE BToInt(_)
BToInt(a) == IF a = <<>> THEN 0 ELSE a[1] + Limb * BToInt(Tail(a))

\* |x| * 10^digits: its integer part, whether the rest is a half or more, and
\* whether the rest is exactly a half
Scaled(x0, digits) ==
    With(x0, LAMBDA x :
    With(BMulS(x.m, Pow10(digits)), LAMBDA M :
        IF x.e >= 0 THEN [q |-> BToInt(BShl(M, x.e)), half |-> FALSE, tie |-> FALSE]
        ELSE With(BShr(M, -x.e - 1), LAMBDA sh :
             With(BDivS(sh.q, 2), LAMBDA d :
                [q |-> BToInt(d.q), half |-> d.r = 1, tie |-> d.r = 1 /\ ~sh.sticky]))))

\* f"{x:.<digits>f}": the decimal numeral nearest to x, ties to even, held as
\* its sign and its digits without the point
PyFixed(x0, digits) ==
    With2(x0, Scaled(x0, digits), LAMBDA x, s :
        [nan |-> FALSE, sg |-> x.sg,
         n |-> IF s.half /\ (~s.tie \/ s.q % 2 = 1) THEN s.q + 1 ELSE s.q])

\* x.toFixed(digits): the decimal numeral nearest to x, the larger one on a
\* tie, and "NaN" for NaN
JsToFixed(x0, digits) ==
    With(x0, LAMBDA x :
        IF x.sg = 0 THEN [nan |-> TRUE, sg |-> 1, n |-> 0]
        ELSE With(Scaled(x, digits), LAMBDA s :
                [nan |-> FALSE, sg |-> x.sg, n |-> IF s.half THEN s.q + 1 ELSE s.q]))

\* a property name that is an array index: "0", or digits without a leading
\* zero, below 2^32 - 1
IsArrayIndex(key) ==
    /\ key # <<>>
    /\ \A i \in 1..Len(key) : key[i] \in Digits
    /\ key[1] # "0" \/ Len(key) = 1
    /\ \/ Len(key) < 10
       \/ Len(key) = 10 /\ StrLt(key, <<"4", "2", "9", "4", "9", "6", "7", "2", "9", "5">>)

\* a < b for two array indices
IndexLt(a, b) == Len(a) < Len(b) \/ (Len(a) = Len(b) /\ StrLt(a, b))

\* Object.keys of an object literal whose properties are written in the order
\* `keys`: the array indices in ascending order, then the other names as
\* written
ObjectKeys(keys0) ==
    With(keys0, LAMBDA keys :
        LET idx == {i \in 1..Len(keys) : IsArrayIndex(keys[i])}
            Rank(i) == Cardinality({j \in idx : IndexLt(keys[j], keys[i])})
        IN  [r \in 1..Cardinality(idx) |-> keys[CHOOSE i \in idx : Rank(i) = r - 1]]
            \o SelectSeq(keys, LAMBDA k : ~IsArrayIndex(k)))

\* the entries of seq by their field `by`, largest first, equal ones in the
\* order they have in seq: sorted(..., reverse=True) and Array.prototype.sort
\* are stable
RECURSIVE SortDesc(_)
SortDesc(seq) ==
    IF seq = <<>> THEN <<>>
    ELSE With(SortDesc(SubSeq(seq, 1, Len(seq) - 1)), LAMBDA done :
         With(seq[Len(seq)], LAMBDA x :
            With(Cardinality({i \in 1..Len(done) : ~FLt(done[i].by, x.by)}), LAMBDA n :
                SubSeq(done, 1, n) \o <<x>> \o SubSeq(done, n + 1, Len(done)))))

\* dates of the Gregorian calendar
IsLeap(y) == (y % 4 = 0 /\ y % 100 # 0) \/ y % 400 = 0

DaysIn(y, mo) ==
    IF mo = 2 THEN (IF IsLeap(y) THEN 29 ELSE 28)
    ELSE IF mo \in {4, 6, 9, 11} THEN 30 ELSE 31

\* the days of year y before its month mo
RECURSIVE DaysBefore(_, _)
DaysBefore(y, mo) == IF mo = 1 THEN 0 ELSE DaysBefore(y, mo - 1) + DaysIn(y, mo - 1)

\* new Date(y, 0, 1).getDay(): the day of the week of January 1, 0 for Sunday
Jan1Day(y) ==
    (1 + 5 * ((y - 1) % 4) + 4 * ((y - 1) % 100) + 6 * ((y - 1) % 400)) % 7

\* new Date(dateStr) for a str YYYY-MM-DD: the date, at midnight UTC, or an
\* invalid Date
ParseDate(t0) ==
    With(t0, LAMBDA t :
        IF /\ Len(t) = 10 /\ t[5] = "-" /\ t[8] = "-"
           /\ \A i \in {1, 2, 3, 4, 6, 7, 9, 10} : t[i] \in Digits
        THEN With2(DigitsVal(SubSeq(t, 1, 4)), DigitsVal(SubSeq(t, 6, 7)), LAMBDA y, mo :
             With(DigitsVal(SubSeq(t, 9, 10)), LAMBDA d :
                IF mo \in 1..12 /\ d >= 1 /\ d <= DaysIn(y, mo)
                THEN [ok |-> TRUE, y |-> y, past |-> DaysBefore(y, mo) + d - 1]
                ELSE [ok |-> FALSE, y |-> 0, past |-> 0]))
        ELSE [ok |-> FALSE, y |-> 0, past |-> 0])

\* String(n) for n >= 0
RECURSIVE IntStr(_)
IntStr(n) ==
    IF n < 10 THEN <<CHOOSE c \in Digits : DigitVal(c) = n>>
    ELSE Append(IntStr(n \div 10), CHOOSE c \in Digits : DigitVal(c) = n % 10)

\* getWeekLabel(dateStr) in a time zone tz hours east of UTC.  Midnight UTC
\* of the date is tz hours off local midnight: getFullYear() is the year
\* before for January 1 west of UTC, and pastDaysOfYear is a whole number of
\* days plus tz/24, so that Math.ceil rounds a multiple of 7 up east of UTC.
getWeekLabel(dateStr, tz) ==
    With(ParseDate(dateStr), LAMBDA date :
        IF ~date.ok THEN <<"N", "a", "N", "-", "W", "N", "a", "N">>
        ELSE LET back == tz < 0 /\ date.past = 0
                 year == IF back THEN date.y - 1 ELSE date.y
                 days == (IF back THEN (IF IsLeap(year) THEN 366 ELSE 365) ELSE date.past)
                         + Jan1Day(year) + 1
                 week == IF tz > 0 THEN days \div 7 + 1 ELSE (days + 6) \div 7
             IN  IntStr(year) \o <<"-", "W">>
                 \o (IF week < 10 THEN <<"0">> ELSE <<>>) \o IntStr(week))

\* sum(stats[field] for stats in machine_stats.values()) over floats: the
\* int 0 plus each value, in the order of the dict
RECURSIVE SumFloat(_, _, _)
SumFloat(ms, field, n) ==
    IF n = 0 THEN FZero
    ELSE FAdd(SumFloat(ms, field, n - 1), ms.stats[ms.keys[n]][field])

\* the same sum over ints
RECURSIVE SumInt(_, _, _)
SumInt(ms, field, n) ==
    IF n = 0 THEN 0 ELSE SumInt(ms, field, n - 1) + ms.stats[ms.keys[n]][field]

\* generate_html_report, its summary statistics
Summary(ms0) ==
    With2(ms0, Len(ms0.keys), LAMBDA ms, n :
    With2(SumFloat(ms, "total_hours_with_samples", n), SumInt(ms, "available_capacity", n),
          LAMBDA total_all_hours, total_available_hours :
    With(IF total_available_hours > 0
         THEN FMulInt(FDivInt(total_all_hours, total_available_hours), 100)
         ELSE FZero, LAMBDA overall_availability :
        [total_machines |-> n,
         total_production_hours |-> SumFloat(ms, "total_hours", n),
         total_sample_hours |-> SumFloat(ms, "sample_hours", n),
         total_all_hours |-> total_all_hours,
         total_production_parts |-> SumInt(ms, "total_parts", n),
         total_sample_parts |-> SumInt(ms, "sample_parts", n),
         total_downtime_hours |-> SumFloat(ms, "downtime_hours", n),
         total_available_hours |-> total_available_hours,
         overall_availability |-> overall_availability,
         overall_downtime_percent |-> FSub(FFromInt(100), overall_availability)])))

\* the summary cards as the template renders them
RenderCards(s0) ==
    With(s0, LAMBDA s :
        [production |-> PyFixed(s.total_production_hours, 2),
         sample |-> PyFixed(s.total_sample_hours, 2),
         total |-> PyFixed(s.total_all_hours, 2),
         machines |-> s.total_machines,
         parts |-> s.total_production_parts,
         downtime |-> PyFixed(s.total_downtime_hours, 1),
         downtime_label |-> PyFixed(s.overall_downtime_percent, 1),
         availability |-> PyFixed(s.overall_availability, 1),
         availability_label |-> <<PyFixed(s.total_all_hours, 1),
                                  PyFixed(FFromInt(s.total_available_hours), 1)>>])

\* date_range: the first and the last of all the dates, or "N/A"
DateRange(ms) ==
    With(Sorted(UNION {{ms.stats[m].dates[i] : i \in 1..Len(ms.stats[m].dates)} :
                           m \in DOMAIN ms.stats}), LAMBDA all_dates :
        IF all_dates = <<>> THEN <<>> ELSE <<all_dates[1], all_dates[Len(all_dates)]>>)

\* sorted_machines: the machines by total_hours, largest first
SortedMachines(ms0) ==
    With(ms0, LAMBDA ms :
        With(SortDesc([i \in 1..Len(ms.keys) |->
                          [name |-> ms.keys[i], by |-> ms.stats[ms.keys[i]].total_hours]]),
             LAMBDA sorted : [i \in 1..Len(sorted) |-> sorted[i].name]))

\* get_available_months: the YYYY-MM of the records' dates, sorted
get_available_months(records) ==
    Sorted({SubSeq(records[i].date, 1, IF Len(records[i].date) < 7
                                       THEN Len(records[i].date) ELSE 7) :
                i \in {j \in 1..Len(records) :
                          records[j].date # <<>> /\ records[j].date # Unknown}})

\* the object machineData holds for one machine
MachineEntry(machine, stats0) ==
    With(stats0, LAMBDA stats :
        [name |-> machine,
         production_hours |-> stats.total_hours,
         sample_hours |-> stats.sample_hours,
         total_hours |-> stats.total_hours_with_samples,
         production_parts |-> stats.total_parts,
         sample_parts |-> stats.sample_parts,
         total_parts |-> stats.total_parts_with_samples,
         dates |-> stats.dates,
         shifts |-> stats.shifts,
         items |-> stats.items,
         available_capacity |-> stats.available_capacity,
         downtime_hours |-> stats.downtime_hours,
         downtime_percent |-> stats.downtime_percent,
         availability_percent |-> stats.availability_percent,
         shift_counts |-> stats.shift_counts,
         records |-> [i \in 1..Len(stats.records) |->
                         With(stats.records[i], LAMBDA r :
                            [date |-> r.date, shift |-> r.shift, item |-> r.item,
                             operation |-> r.operation, ok_parts |-> r.ok_parts,
                             cycle_time |-> r.cycle_time, is_sample |-> r.is_sample,
                             operator |-> r.operator])]])

\* machineData: an object literal with the machines in the order of the dict
MachineData(ms) ==
    [keys |-> ms.keys,
     data |-> [m \in DOMAIN ms.stats |-> MachineEntry(m, ms.stats[m])]]

\* the number a numeral with two decimals is read as by the script
FromFixed(f0, digits) ==
    With(f0, LAMBDA f : FDivInt(FFromInt(f.sg * f.n), Pow10(digits)))

\* generate_html_report: the page, from the summary cards to the script's
\* machineData and the data of the charts written into it
generate_html_report(machine_stats0, all_records, available_months) ==
    With2(machine_stats0, Summary(machine_stats0), LAMBDA machine_stats, summary :
    With(SortedMachines(machine_stats), LAMBDA machine_names :
        [date_range |-> DateRange(machine_stats),
         months |-> available_months,
         cards |-> RenderCards(summary),
         options |-> machine_names,
         machineData |-> MachineData(machine_stats),
         hours_chart |->
             [labels |-> machine_names,
              production |-> [i \in 1..Len(machine_names) |->
                                 machine_stats.stats[machine_names[i]].total_hours],
              sample |-> [i \in 1..Len(machine_names) |->
                             machine_stats.stats[machine_names[i]].sample_hours]],
         comparison |-> <<FromFixed(PyFixed(summary.total_production_hours, 2), 2),
                          FromFixed(PyFixed(summary.total_sample_hours, 2), 2)>>]))

\* Object.entries(data).sort((a, b) => b[1].total_hours - a[1].total_hours):
\* the names, by total_hours, largest first
SortedByHours(d0) ==
    With2(d0, ObjectKeys(d0.keys), LAMBDA d, names :
        With(SortDesc([i \in 1..Len(names) |->
                          [name |-> names[i], by |-> d.data[names[i]].total_hours]]),
             LAMBDA sorted : [i \in 1..Len(sorted) |-> sorted[i].name]))

\* the downtime chart as the script creates it from machineData
DowntimeChart(d0) ==
    With2(d0, SortedByHours(d0), LAMBDA d, names :
        [labels |-> names,
         hours |-> [i \in 1..Len(names) |-> d.data[names[i]].total_hours],
         downtime |-> [i \in 1..Len(names) |-> d.data[names[i]].downtime_hours]])

\* populateWeekFilter: the week labels of all the machines' dates, sorted
populateWeekFilter(machineData, tz) ==
    Sorted({getWeekLabel(date, tz) :
               date \in {d \in UNION {{machineData.data[m].dates[i] :
                                          i \in 1..Len(machineData.data[m].dates)} :
                                      m \in DOMAIN machineData.data} :
                            d # <<>> /\ d # Unknown}})

\* t.startsWith(prefix)
StartsWith(t, prefix) == Len(prefix) <= Len(t) /\ SubSeq(t, 1, Len(prefix)) = prefix

\* applyFilter, the statistics it recalculates from the records of one machine
RECURSIVE Recalculate(_, _)
Recalculate(records, n) ==
    IF n = 0
    THEN [totalSeconds |-> FZero, sampleSeconds |-> FZero, totalParts |-> 0,
          sampleParts |-> 0, hasSamples |-> FALSE, shiftCounts |-> <<>>]
    ELSE With2(Recalculate(records, n - 1), records[n], LAMBDA acc, record :
            With([acc EXCEPT !.shiftCounts = Increment(@, record.shift)], LAMBDA counted :
                IF record.is_sample
                THEN [counted EXCEPT !.sampleSeconds = IF acc.hasSamples THEN @
                                                       ELSE FFromInt(28800),
                                     !.hasSamples = TRUE,
                                     !.sampleParts = @ + record.ok_parts]
                ELSE [counted EXCEPT
                        !.totalSeconds = FAdd(@, FMulInt(record.cycle_time, record.ok_parts)),
                        !.totalParts = @ + record.ok_parts]))

\* FilteredEntry with the sample hours left out of the hours with samples
FilteredEntry_WithoutSampleHours(filteredRecords) ==
    With(Recalculate(filteredRecords, Len(filteredRecords)), LAMBDA acc :
    With2(FDivInt(acc.totalSeconds, 3600), FDivInt(acc.sampleSeconds, 3600),
          LAMBDA totalHours, sampleHours :
    With2(totalHours, SumValues(acc.shiftCounts) * 8,
          LAMBDA totalHoursWithSamples, availableCapacity :
    With(IF availableCapacity > 0
         THEN FMulInt(FDivInt(totalHoursWithSamples, availableCapacity), 100)
         ELSE FZero, LAMBDA availabilityPercent :
        [total_hours |-> totalHours,
         sample_hours |-> sampleHours,
         total_hours_with_samples |-> totalHoursWithSamples,
         production_parts |-> acc.totalParts,
         sample_parts |-> acc.sampleParts,
         available_capacity |-> availableCapacity,
         downtime_hours |-> Max0(FSub(FFromInt(availableCapacity), totalHoursWithSamples)),
         availability_percent |-> availabilityPercent,
         downtime_percent |-> FSub(FFromInt(100), availabilityPercent)]))))

\* applyFilter, the entry of filteredData for one machine's filtered records
FilteredEntry(filteredRecords) ==
    With(Recalculate(filteredRecords, Len(filteredRecords)), LAMBDA acc :
    With2(FDivInt(acc.totalSeconds, 3600), FDivInt(acc.sampleSeconds, 3600),
          LAMBDA totalHours, sampleHours :
    With2(FAdd(totalHours, sampleHours), SumValues(acc.shiftCounts) * 8,
          LAMBDA totalHoursWithSamples, availableCapacity :
    With(IF availableCapacity > 0
         THEN FMulInt(FDivInt(totalHoursWithSamples, availableCapacity), 100)
         ELSE FZero, LAMBDA availabilityPercent :
        [total_hours |-> totalHours,
         sample_hours |-> sampleHours,
         total_hours_with_samples |-> totalHoursWithSamples,
         production_parts |-> acc.totalParts,
         sample_parts |-> acc.sampleParts,
         available_capacity |-> availableCapacity,
         downtime_hours |-> Max0(FSub(FFromInt(availableCapacity), totalHoursWithSamples)),
         availability_percent |-> availabilityPercent,
         downtime_percent |-> FSub(FFromInt(100), availabilityPercent)]))))

\* applyFilter, the data it hands to updateSummaryCards and updateCharts: for
\* 'all' a copy of nine properties of machineData's objects, and for a month
\* or a week the statistics of the records that match
FilteredData(machineData0, filterType, filterValue, tz) ==
    With2(machineData0, ObjectKeys(machineData0.keys), LAMBDA machineData, names :
        IF filterType = "all"
        THEN [keys |-> names,
              data |-> [m \in DOMAIN machineData.data |->
                  With(machineData.data[m], LAMBDA data :
                     [total_hours |-> Prop(data, "total_hours"),
                      sample_hours |-> Prop(data, "sample_hours"),
                      total_hours_with_samples |-> Prop(data, "total_hours_with_samples"),
                      production_parts |-> Prop(data, "production_parts"),
                      sample_parts |-> Prop(data, "sample_parts"),
                      available_capacity |-> Prop(data, "available_capacity"),
                      downtime_hours |-> Prop(data, "downtime_hours"),
                      availability_percent |-> Prop(data, "availability_percent"),
                      downtime_percent |-> Prop(data, "downtime_percent")])]]
        ELSE LET Matches(r) ==
                     IF filterValue = <<>> THEN TRUE
                     ELSE IF filterType = "month"
                     THEN r.date # <<>> /\ StartsWith(r.date, filterValue)
                     ELSE r.date # <<>> /\ getWeekLabel(r.date, tz) = filterValue
                 filteredRecords ==
                     [m \in DOMAIN machineData.data |->
                         SelectSeq(machineData.data[m].records, Matches)]
                 kept == {m \in DOMAIN machineData.data : Len(filteredRecords[m]) > 0}
             IN  [keys |-> SelectSeq(names, LAMBDA m : m \in kept),
                  data |-> [m \in kept |-> FilteredEntry(filteredRecords[m])]])

\* Object.values(filteredData).reduce((sum, d) => sum + d[field], 0)
RECURSIVE Reduce(_, _, _)
Reduce(filteredData, field, n) ==
    IF n = 0 THEN FZero
    ELSE JsAdd(Reduce(filteredData, field, n - 1),
               filteredData.data[filteredData.keys[n]][field])

\* the same sum over integers
RECURSIVE ReduceInt(_, _, _)
ReduceInt(filteredData, field, n) ==
    IF n = 0 THEN 0
    ELSE ReduceInt(filteredData, field, n - 1)
         + filteredData.data[filteredData.keys[n]][field]

\* updateSummaryCards: the texts it puts into the summary cards
updateSummaryCards(filteredData0) ==
    With2(filteredData0, Len(filteredData0.keys), LAMBDA filteredData, n :
    With2(Reduce(filteredData, "total_hours_with_samples", n),
          ReduceInt(filteredData, "available_capacity", n),
          LAMBDA totalAllHours, totalAvailableHours :
    With(IF totalAvailableHours > 0 THEN JsPercent(totalAllHours, totalAvailableHours)
         ELSE FZero, LAMBDA overallAvailability :
        [production |-> JsToFixed(Reduce(filteredData, "total_hours", n), 2),
         sample |-> JsToFixed(Reduce(filteredData, "sample_hours", n), 2),
         total |-> JsToFixed(totalAllHours, 2),
         machines |-> n,
         parts |-> ReduceInt(filteredData, "production_parts", n),
         downtime |-> JsToFixed(Reduce(filteredData, "downtime_hours", n), 1),
         downtime_label |-> JsToFixed(JsSub(FFromInt(100), overallAvailability), 1),
         availability |-> JsToFixed(overallAvailability, 1),
         availability_label |-> <<JsToFixed(totalAllHours, 1),
                                  JsToFixed(FFromInt(totalAvailableHours), 1)>>])))

\* updateCharts: the labels and data it gives to the three charts
updateCharts(filteredData0) ==
    With2(filteredData0, SortedByHours(filteredData0), LAMBDA filteredData, names :
        [hours_chart |->
             [labels |-> names,
              production |-> [i \in 1..Len(names) |-> filteredData.data[names[i]].total_hours],
              sample |-> [i \in 1..Len(names) |-> filteredData.data[names[i]].sample_hours]],
         downtime_chart |->
             [labels |-> names,
              hours |-> [i \in 1..Len(names) |->
                            filteredData.data[names[i]].total_hours_with_samples],
              downtime |-> [i \in 1..Len(names) |->
                               filteredData.data[names[i]].downtime_hours]],
         comparison |-> <<Reduce(filteredData, "total_hours", Len(filteredData.keys)),
                          Reduce(filteredData, "sample_hours", Len(filteredData.keys))>>])

\* the machine selector's handler: the details shown for option `value`
MachineDetails(machineData0, value) ==
    With(machineData0, LAMBDA machineData :
    With(ObjectKeys(machineData.keys)[value + 1], LAMBDA machineName :
    With(machineData.data[machineName], LAMBDA data :
        [name |-> machineName,
         production_hours |-> JsToFixed(data.production_hours, 2),
         sample_hours |-> JsToFixed(data.sample_hours, 2),
         total_hours |-> JsToFixed(data.total_hours, 2),
         production_parts |-> data.production_parts,
         sample_parts |-> data.sample_parts,
         dates |-> data.dates,
         shifts |-> data.shifts,
         items |-> data.items,
         available_capacity |-> JsToFixed(FFromInt(data.available_capacity), 1),
         running |-> JsToFixed(data.total_hours, 1),
         downtime_hours |-> JsToFixed(data.downtime_hours, 1),
         downtime_percent |-> JsToFixed(data.downtime_percent, 1),
         availability_percent |-> JsToFixed(data.availability_percent, 1),
         shift_counts |-> data.shift_counts])))

\* records shown in a dashboard, at most
MaxDashRecords == 2

Seven == <<"7">>

\* hours east of UTC of the viewer's clock in January
TimeZones == {-5, 0, 1}

\* the records of a dashboard: a machine whose name is a number, two months,
\* a Saturday that ends a week, a sample, a record without a date, and one
\* machine with more hours than the others
DashRecords ==
    {RecordOf(r[1], r[2], r[3], r[4], r[5], r[6]) :
        r \in {<<M1, ItemA, Txt12, Ct1p5, DoeS1, <<"r", "2", "0", "2", "4", "0", "1", "0", "6">>>>,
               <<M2, ItemB, <<"4">>, Ct2p3, DoeS2, <<"r", "2", "0", "2", "4", "0", "1", "1", "5">>>>,
               <<M2, ItemA, Txt3, Ct480, DoeS1, <<"r", "2", "0", "2", "4", "0", "1", "1", "5">>>>,
               <<M2, ItemB, <<"2", "5", "0">>, Ct9p9, DoeS2, <<"r", "2", "0", "2", "4", "0", "2", "0", "1">>>>,
               <<Seven, ItemA, Txt12, Ct1p5, Doe, <<"r", "e", "p", "o", "r", "t">>>>,
               <<M1, ItemB, <<"1">>, Ct480p0, DoeS1, <<"r", "2", "0", "2", "3", "1", "2", "0", "1">>>>}}

DashIdle ==
    [pc |-> "idle", records |-> <<>>, page |-> <<>>, tz |-> 0, cards |-> <<>>,
     hours_chart |-> <<>>, downtime_chart |-> <<>>, comparison |-> <<>>, weeks |-> <<>>,
     filterType |-> "all", monthFilter |-> <<>>, weekFilter |-> <<>>,
     machineSelector |-> -1, details |-> <<>>, filteredData |-> <<>>, viewed |-> FALSE]

\* main from its call of calculate_running_hours to the dashboard it writes
DashGenerate ==
    /\ dash.pc = "start"
    /\ dash' = [dash EXCEPT
                  !.pc = "written",
                  !.page = generate_html_report(calculate_running_hours(dash.records),
                                                dash.records,
                                                get_available_months(dash.records))]
    /\ UNCHANGED <<parser, fed, extract, agg, main, report, disk, prep>>

\* the first option of a select, which is its value until another is chosen
FirstOption(options) == IF options = <<>> THEN <<>> ELSE options[1]

\* the page is opened: the script creates the charts and fills the week filter
DashLoad ==
    /\ dash.pc = "written"
    /\ \E tz \in TimeZones :
        dash' = With(populateWeekFilter(dash.page.machineData, tz), LAMBDA weeks :
                    [dash EXCEPT
                       !.pc = "open", !.tz = tz,
                       !.cards = dash.page.cards,
                       !.hours_chart = dash.page.hours_chart,
                       !.downtime_chart = DowntimeChart(dash.page.machineData),
                       !.comparison = dash.page.comparison,
                       !.weeks = weeks,
                       !.monthFilter = FirstOption(dash.page.months),
                       !.weekFilter = FirstOption(weeks)])
    /\ UNCHANGED <<parser, fed, extract, agg, main, report, disk, prep>>

\* applyFilter: the cards and the charts after it
applyFilter(d0, filterType, filterValue) ==
    With2(d0, FilteredData(d0.page.machineData, filterType, filterValue, d0.tz),
          LAMBDA d, filteredData :
        With(updateCharts(filteredData), LAMBDA charts :
            [d EXCEPT !.filteredData = <<filteredData>>,
                      !.cards = updateSummaryCards(filteredData),
                      !.hours_chart = charts.hours_chart,
                      !.downtime_chart = charts.downtime_chart,
                      !.comparison = charts.comparison,
                      !.viewed = TRUE]))

\* another option of the machine selector is chosen
DashSelectMachine ==
    /\ dash.pc = "open"
    /\ \E value \in -1..(Len(dash.page.options) - 1) :
        /\ value # dash.machineSelector
        /\ dash' = [dash EXCEPT
                      !.machineSelector = value,
                      !.details = IF value = -1 THEN <<>>
                                  ELSE <<MachineDetails(dash.page.machineData, value)>>]
    /\ UNCHANGED <<parser, fed, extract, agg, main, report, disk, prep>>

\* another view is chosen: All Data, Monthly View or Weekly View
DashFilterType ==
    /\ dash.pc = "open"
    /\ \E filterType \in {"all", "month", "week"} :
        /\ filterType # dash.filterType
        /\ dash' = applyFilter([dash EXCEPT !.filterType = filterType], filterType,
                               IF filterType = "month" THEN dash.monthFilter
                               ELSE IF filterType = "week" THEN dash.weekFilter
                               ELSE <<>>)
    /\ UNCHANGED <<parser, fed, extract, agg, main, report, disk, prep>>

\* another month is chosen in the monthly view
DashMonthFilter ==
    /\ dash.pc = "open"
    /\ dash.filterType = "month"
    /\ \E i \in 1..Len(dash.page.months) :
        /\ dash.page.months[i] # dash.monthFilter
        /\ dash' = applyFilter([dash EXCEPT !.monthFilter = dash.page.months[i]],
                               "month", dash.page.months[i])
    /\ UNCHANGED <<parser, fed, extract, agg, main, report, disk, prep>>

\* another week is chosen in the weekly view
DashWeekFilter ==
    /\ dash.pc = "open"
    /\ dash.filterType = "week"
    /\ \E i \in 1..Len(dash.weeks) :
        /\ dash.weeks[i] # dash.weekFilter
        /\ dash' = applyFilter([dash EXCEPT !.weekFilter = dash.weeks[i]],
                               "week", dash.weeks[i])
    /\ UNCHANGED <<parser, fed, extract, agg, main, report, disk, prep>>

\* main run again and again on one input folder: the files on disk and the
\* files each run takes as input.  A file is the folder it is in and its name.
MaxRuns == 3

File(dir, name) == [dir |-> dir, name |-> name]

\* t.endswith(suffix)
EndsWith(t, suffix) ==
    Len(suffix) <= Len(t) /\ SubSeq(t, Len(t) - Len(suffix) + 1, Len(t)) = suffix

DotHtml == <<".", "h", "t", "m", "l">>

DashboardPrefix ==
    <<"c", "n", "c", "_", "r", "u", "n", "n", "i", "n", "g", "_", "h", "o", "u", "r", "s",
      "_", "d", "a", "s", "h", "b", "o", "a", "r", "d">>

ReportPrefix ==
    <<"c", "n", "c", "_", "r", "u", "n", "n", "i", "n", "g", "_", "h", "o", "u", "r", "s",
      "_", "r", "e", "p", "o", "r", "t">>

DataPrefix ==
    <<"c", "n", "c", "_", "r", "u", "n", "n", "i", "n", "g", "_", "h", "o", "u", "r", "s",
      "_", "d", "a", "t", "a">>

\* datetime.now().strftime("%Y%m%d_%H%M%S") at `clock` seconds past 12:00:00
\* on 2024-01-15, for clock < 10
Timestamp(clock) ==
    <<"2", "0", "2", "4", "0", "1", "1", "5", "_", "1", "2", "0", "0", "0">> \o IntStr(clock)

\* the names of the three reports of a run
DashboardName(timestamp) == DashboardPrefix \o <<"_">> \o timestamp \o DotHtml

ReportName(timestamp) == ReportPrefix \o <<"_">> \o timestamp \o <<".", "t", "x", "t">>

DataName(timestamp) == DataPrefix \o <<"_">> \o timestamp \o <<".", "j", "s", "o", "n">>

\* the listing without the test on the start of the name
IsInput_AnyHtml(file) == EndsWith(file, DotHtml)

\* main, the test a file name passes to be an input document
IsInput(file) == EndsWith(file, DotHtml) /\ ~StartsWith(file, DashboardPrefix)

\* os.walk(folder_path) for the input folder "in": the files in it and in the
\* folders below it
Walk(files) == {f \in files : f.dir \in {"in", "in/out"}}

\* files the input folder may hold before the first run: two reports, notes,
\* and the dashboard and the text report of a run made before
InitialFiles ==
    {File("in", <<"r", "2", "0", "2", "4", "0", "1", "1", "5", ".", "h", "t", "m", "l">>),
     File("in/out", <<"r", "e", "p", "o", "r", "t", ".", "h", "t", "m", "l">>),
     File("in", <<"n", "o", "t", "e", "s", ".", "t", "x", "t">>),
     File("in/out", DashboardName(Timestamp(0))),
     File("in/out", ReportName(Timestamp(0)))}

\* the dashboards among files
Dashboards(files) ==
    {f \in files : \E clock \in 0..9 : f.name = DashboardName(Timestamp(clock))}

DiskIdle ==
    [pc |-> "idle", files |-> {}, output |-> "in", run |-> 0, clock |-> 0,
     html_files |-> {}, earlier |-> {}, message |-> ""]

\* main up to its loop: the files of the input folder are listed
DiskList ==
    /\ disk.pc = "start"
    /\ disk' = With({f \in Walk(disk.files) : IsInput(f.name)}, LAMBDA html_files :
                  [disk EXCEPT !.html_files = html_files,
                               !.earlier = Dashboards(disk.files),
                               !.run = @ + 1,
                               !.pc = IF html_files = {} THEN "done" ELSE "listed",
                               !.message = IF html_files = {} THEN "No HTML files found"
                                           ELSE ""])
    /\ UNCHANGED <<parser, fed, extract, agg, main, report, dash, prep>>

\* main from its loop on: an exception out of extract_production_data ends
\* the run, the output folder may fail to be made, and otherwise the three
\* reports are written under the timestamp of the clock
DiskWrite ==
    /\ disk.pc = "listed"
    /\ \E outcome \in {"crashed", "no folder", "written"}, passed \in {0, 1} :
        disk' =
          IF outcome = "crashed" THEN [disk EXCEPT !.pc = "crashed"]
          ELSE IF outcome = "no folder"
          THEN [disk EXCEPT !.pc = "done", !.message = "Could not create output folder"]
          ELSE With(Timestamp(disk.clock + passed), LAMBDA timestamp :
                  [disk EXCEPT
                     !.pc = "done", !.clock = @ + passed,
                     !.message = "Analysis complete",
                     !.files = @ \cup {File(disk.output, DashboardName(timestamp)),
                                       File(disk.output, ReportName(timestamp)),
                                       File(disk.output, DataName(timestamp))}])
    /\ UNCHANGED <<parser, fed, extract, agg, main, report, dash, prep>>

\* the program is started again on the same folders
DiskAgain ==
    /\ disk.pc \in {"done", "crashed"}
    /\ disk.run < MaxRuns
    /\ disk' = [disk EXCEPT !.pc = "start", !.message = "", !.html_files = {}]
    /\ UNCHANGED <<parser, fed, extract, agg, main, report, dash, prep>>

\* The second script's chart data.  A value found in a report is None, a
\* str, an int or a float.  An int is h * Huge + v for a number Huge beyond
\* the largest float (10^400), so that h # 0 is an int no float can hold.
PyNone == [kind |-> "none", h |-> 0, v |-> 0, f |-> FZero]

PyStr == [kind |-> "str", h |-> 0, v |-> 0, f |-> FZero]

PyIntOf(v) == [kind |-> "int", h |-> 0, v |-> v, f |-> FZero]

PyHuge(h) == [kind |-> "int", h |-> h, v |-> 0, f |-> FZero]

PyFloatOf(f) == [kind |-> "float", h |-> 0, v |-> 0, f |-> f]

\* isinstance(x, (int, float))
IsNumber(x) == x.kind \in {"int", "float"}

\* an operation's outcome: the value, or an exception raised
Returned(x) == [raised |-> FALSE, val |-> x]

Raised == [raised |-> TRUE, val |-> PyNone]

\* float(x) for a number: OverflowError for an int too large
PyToFloat(x) ==
    IF x.kind = "float" THEN Returned(x)
    ELSE IF x.h # 0 THEN Raised
    ELSE Returned(PyFloatOf(FFromInt(x.v)))

\* a * b for two naturals held as limbs
RECURSIVE BMul(_, _)
BMul(a, b) ==
    IF b = <<>> THEN <<>>
    ELSE BAdd(BMulS(a, b[1]), BShl(BMul(a, Tail(b)), LimbBits))

\* x * y for two floats
FMul(x0, y0) ==
    With2(x0, y0, LAMBDA x, y :
        IF x.m = <<>> \/ y.m = <<>> THEN FZero
        ELSE FRound(x.sg * y.sg, BMul(x.m, y.m), x.e + y.e, FALSE))

\* floor(a * 2^bits / d) for a < d, with the remainder: one bit by doubling
\* and comparing, more bits half by half
RECURSIVE LongDiv(_, _, _)
LongDiv(a, d, bits) ==
    IF bits = 0 THEN [q |-> <<>>, r |-> a]
    ELSE IF bits = 1
    THEN With(BShl(a, 1), LAMBDA twice :
            IF BCmp(twice, d) >= 0 THEN [q |-> <<1>>, r |-> BSub(twice, d)]
            ELSE [q |-> <<>>, r |-> twice])
    ELSE With(LongDiv(a, d, bits \div 2), LAMBDA high :
         With(LongDiv(high.r, d, bits - bits \div 2), LAMBDA low :
            [q |-> BAdd(BShl(high.q, bits - bits \div 2), low.q), r |-> low.r]))

\* x / y for two floats, y # 0
FDiv(x0, y0) ==
    With2(x0, y0, LAMBDA x, y :
        IF x.m = <<>> THEN FZero
        ELSE With(BCmp(x.m, y.m) >= 0, LAMBDA whole :
             With(LongDiv(IF whole THEN BSub(x.m, y.m) ELSE x.m, y.m, MantBits + 2),
                  LAMBDA dv :
                FRound(x.sg * y.sg,
                       IF whole THEN BAdd(dv.q, BShl(<<1>>, MantBits + 2)) ELSE dv.q,
                       x.e - y.e - (MantBits + 2), dv.r # <<>>))))

\* int(x) for a float: the integer towards zero
FTrunc(x0) ==
    With(x0, LAMBDA x :
        IF x.m = <<>> THEN 0
        ELSE IF x.e >= 0 THEN x.sg * BToInt(BShl(x.m, x.e))
        ELSE x.sg * BToInt(BShr(x.m, -x.e).q))

\* int(x) for a number
PyTrunc(x) == IF x.kind = "float" THEN FTrunc(x.f) ELSE x.v

\* round(x, 1) for a float
Round1(x0) ==
    With(PyFixed(x0, 1), LAMBDA fixed : FDivInt(FFromInt(fixed.sg * fixed.n), 10))

\* x + y for two numbers
PyAdd(x0, y0) ==
    With2(x0, y0, LAMBDA x, y :
        IF x.kind = "int" /\ y.kind = "int"
        THEN Returned([kind |-> "int", h |-> x.h + y.h, v |-> x.v + y.v, f |-> FZero])
        ELSE With2(PyToFloat(x), PyToFloat(y), LAMBDA fx, fy :
                IF fx.raised \/ fy.raised THEN Raised
                ELSE Returned(PyFloatOf(FAdd(fx.val.f, fy.val.f)))))

\* x / y for two numbers, y # 0: the quotient of two ints is rounded once,
\* and is too large for a float when only x is beyond the floats
PyDiv(x0, y0) ==
    With2(x0, y0, LAMBDA x, y :
        IF x.kind = "int" /\ y.kind = "int" /\ (x.h # 0 \/ y.h # 0)
        THEN IF y.h = 0 THEN Raised
             ELSE IF x.h = 0 THEN Returned(PyFloatOf(FZero))
             ELSE Returned(PyFloatOf(FDiv(FFromInt(x.h), FFromInt(y.h))))
        ELSE With2(PyToFloat(x), PyToFloat(y), LAMBDA fx, fy :
                IF fx.raised \/ fy.raised THEN Raised
                ELSE Returned(PyFloatOf(FDiv(fx.val.f, fy.val.f)))))

\* x > 0 for a number
PyPositive(x) ==
    IF x.kind = "float" THEN FSign(x.f) > 0
    ELSE x.h > 0 \/ (x.h = 0 /\ x.v > 0)

\* a dict with str keys: the keys in insertion order and their values; None
\* and a missing key are held as the empty dict, which is as false as they are
Dict(keys, values) ==
    [keys |-> keys, val |-> [k \in {keys[i] : i \in 1..Len(keys)} |->
                                values[CHOOSE i \in 1..Len(keys) : keys[i] = k]]]

NoDict == Dict(<<>>, <<>>)

\* a report of the month: its parts, its downtime by machine and by category
\* in minutes, and the machine names of its 'machine_data' and 'top_machines'
\* lists
Report(ok_parts, nok_parts, downtime_machines, downtime_categories, machine_data, top_machines) ==
    [ok_parts |-> ok_parts, nok_parts |-> nok_parts,
     downtime_machines |-> downtime_machines,
     downtime_categories |-> downtime_categories,
     machine_data |-> machine_data, top_machines |-> top_machines]

\* prepare_monthly_parts_data, its loop: the two totals after n reports
RECURSIVE PartsTotals(_, _)
PartsTotals(reports, n) ==
    IF n = 0 THEN [ok_parts |-> 0, nok_parts |-> 0]
    ELSE With2(PartsTotals(reports, n - 1), reports[n], LAMBDA totals, rpt :
            [ok_parts |-> IF IsNumber(rpt.ok_parts)
                          THEN totals.ok_parts + PyTrunc(rpt.ok_parts)
                          ELSE totals.ok_parts,
             nok_parts |-> IF IsNumber(rpt.nok_parts)
                           THEN totals.nok_parts + PyTrunc(rpt.nok_parts)
                           ELSE totals.nok_parts])

SampleOkParts == 12500

SampleNokParts == 280

prepare_monthly_parts_data(current_month_reports) ==
    With(PartsTotals(current_month_reports, Len(current_month_reports)), LAMBDA totals :
        IF totals.ok_parts = 0 /\ totals.nok_parts = 0
        THEN [ok_parts |-> SampleOkParts, nok_parts |-> SampleNokParts]
        ELSE totals)

\* the names a list of names gives to a set: stripped, and not empty
Names(names) == {Strip(names[i]) : i \in 1..Len(names)} \ {<<>>}

\* prepare_machine_downtime_data, its first loop: all_machines
AllMachines(reports) ==
    UNION {Names(reports[i].downtime_machines.keys) \cup Names(reports[i].machine_data)
           \cup Names(reports[i].top_machines) : i \in 1..Len(reports)}

\* prepare_machine_downtime_data, its first loop: all_categories
AllCategories(reports) ==
    UNION {Names(reports[i].downtime_categories.keys) : i \in 1..Len(reports)}

\* sum(v for v in d.values() if isinstance(v, (int, float))) over the first n
\* values
RECURSIVE SumNumbers(_, _)
SumNumbers(d, n) ==
    IF n = 0 THEN Returned(PyIntOf(0))
    ELSE With2(SumNumbers(d, n - 1), d.val[d.keys[n]], LAMBDA before, v :
            IF before.raised THEN Raised
            ELSE IF IsNumber(v) THEN PyAdd(before.val, v)
            ELSE before)

\* the hours of `machine` in a report: downtime_value / 60, or the int 0
MachineDowntimeTotal(rpt, machine) ==
    IF machine \in DOMAIN rpt.downtime_machines.val
       /\ IsNumber(rpt.downtime_machines.val[machine])
    THEN PyDiv(rpt.downtime_machines.val[machine], PyIntOf(60))
    ELSE Returned(PyIntOf(0))

\* one value 0.0 for every category
Zeros(categories) == [k \in 1..Len(categories) |-> <<FZero>>]

\* prepare_machine_downtime_data, what one report appends for one machine:
\* for the k-th category of `categories`, the values appended to its list.
\* An exception ends the loop over the categories, and the handler appends
\* 0.0 to every list.
Appended(rpt, machine, categories) ==
    With(MachineDowntimeTotal(rpt, machine), LAMBDA hours :
        IF hours.raised THEN Zeros(categories)
        ELSE IF ~(rpt.downtime_categories.keys # <<>> /\ PyPositive(hours.val))
        THEN Zeros(categories)
        ELSE With(SumNumbers(rpt.downtime_categories,
                             Len(rpt.downtime_categories.keys)), LAMBDA total :
            IF total.raised THEN Zeros(categories)
            ELSE LET Shared(k) ==
                         /\ categories[k] \in DOMAIN rpt.downtime_categories.val
                         /\ PyPositive(total.val)
                         /\ IsNumber(rpt.downtime_categories.val[categories[k]])
                     Proportion(k) ==
                         PyDiv(rpt.downtime_categories.val[categories[k]], total.val)
                     failed == {k \in 1..Len(categories) : Shared(k) /\ Proportion(k).raised}
                     Value(k) ==
                         IF Shared(k)
                         THEN Round1(FMul(hours.val.f, Proportion(k).val.f))
                         ELSE FZero
                 IN  [k \in 1..Len(categories) |->
                         IF failed = {} THEN <<Value(k)>>
                         ELSE IF \A j \in failed : k < j THEN <<Value(k), FZero>>
                         ELSE <<FZero>>]))

\* the lists of one machine after the first n reports
RECURSIVE MachineSeries(_, _, _, _)
MachineSeries(reports, machine, categories, n) ==
    IF n = 0 THEN [k \in 1..Len(categories) |-> <<>>]
    ELSE With2(MachineSeries(reports, machine, categories, n - 1),
               Appended(reports[n], machine, categories), LAMBDA before, now :
            [k \in 1..Len(categories) |-> before[k] \o now[k]])

NoMachineData == <<"N", "o", " ", "M", "a", "c", "h", "i", "n", "e", " ", "D", "a", "t", "a">>

NoCategories == <<"N", "o", " ", "C", "a", "t", "e", "g", "o", "r", "i", "e", "s">>

\* prepare_machine_downtime_data, for the orders in which the sets
\* all_machines and all_categories are iterated
prepare_machine_downtime_data(current_month_reports, machines, categories) ==
    IF machines = <<>>
    THEN Dict(<<NoMachineData>>, <<Dict(<<NoCategories>>, <<<<FZero>>>>)>>)
    ELSE Dict(machines,
              [i \in 1..Len(machines) |->
                  Dict(categories,
                       MachineSeries(current_month_reports, machines[i], categories,
                                     Len(current_month_reports)))])

\* reports of a month, at most
MaxPrepReports == 2

CatA == <<"A">>

CatB == <<"B">>

CatC == <<"C">>

\* reports: whole and broken numbers of parts, parts that are missing or
\* text, a machine key with blanks around it, machines named only in the
\* lists, minutes that are text, and category minutes that are ints beyond
\* the floats and cancel in the sum
PrepReports ==
    {Report(PyIntOf(120), PyFloatOf(FFromDecimal(25, 1)),
            Dict(<<M1, <<" ">> \o M2 \o <<" ">> >>, <<PyIntOf(120), PyIntOf(30)>>),
            Dict(<<CatA, CatB>>, <<PyIntOf(1), PyIntOf(3)>>), <<>>, <<>>),
     Report(PyNone, PyIntOf(0),
            Dict(<<M1>>, <<PyIntOf(60)>>),
            Dict(<<CatA, CatB, CatC>>,
                 <<PyHuge(1), PyHuge(-1), PyFloatOf(FFromDecimal(5, 1))>>), <<>>, <<>>),
     Report(PyStr, PyIntOf(0), NoDict, NoDict, <<>>, <<M2>>),
     Report(PyIntOf(0), PyNone,
            Dict(<<M1>>, <<PyStr>>), Dict(<<CatA>>, <<PyIntOf(2)>>), <<M1>>, <<>>),
     Report(PyFloatOf(FNeg(FFromDecimal(29, 1))), PyIntOf(7),
            Dict(<<M2>>, <<PyFloatOf(FFromDecimal(455, 1))>>),
            Dict(<<CatC, CatB>>, <<PyFloatOf(FFromDecimal(5, 1)), PyStr>>), <<>>, <<>>)}

\* the orders in which a set can be iterated
Orders(S) ==
    {s \in [1..Cardinality(S) -> S] : \A i, j \in 1..Cardinality(S) : s[i] = s[j] => i = j}

PrepIdle == [pc |-> "idle", reports |-> <<>>, parts |-> <<>>, downtime |-> <<>>]

\* the dashboard's doughnut chart data is prepared
PrepParts ==
    /\ prep.pc = "ready"
    /\ prep.parts = <<>>
    /\ prep' = [prep EXCEPT !.parts = <<prepare_monthly_parts_data(prep.reports)>>]
    /\ UNCHANGED <<parser, fed, extract, agg, main, report, dash, disk>>

\* the dashboard's machine downtime data is prepared; the sets are iterated
\* in an order that the hashes of the names decide
PrepDowntime ==
    /\ prep.pc = "ready"
    /\ prep.downtime = <<>>
    /\ \E machines \in Orders(AllMachines(prep.reports)),
          categories \in Orders(AllCategories(prep.reports)) :
        prep' = [prep EXCEPT !.downtime =
                    <<prepare_machine_downtime_data(prep.reports, machines, categories)>>]
    /\ UNCHANGED <<parser, fed, extract, agg, main, report, dash, disk>>

InitDashboard ==
    /\ parser = ParserInit
    /\ fed = 0
    /\ extract = ExtractIdle
    /\ agg = AggIdle
    /\ main = MainIdle
    /\ report = ReportIdle
    /\ dash \in {[DashIdle EXCEPT !.pc = "start", !.records = recs] :
                    recs \in SeqsUpTo(DashRecords, MaxDashRecords)}
    /\ disk = DiskIdle
    /\ prep = PrepIdle

NextDashboard ==
    \/ DashGenerate \/ DashLoad \/ DashSelectMachine
    \/ DashFilterType \/ DashMonthFilter \/ DashWeekFilter

SpecDashboard == InitDashboard /\ [][NextDashboard]_vars

InitRuns ==
    /\ parser = ParserInit
    /\ fed = 0
    /\ extract = ExtractIdle
    /\ agg = AggIdle
    /\ main = MainIdle
    /\ report = ReportIdle
    /\ dash = DashIdle
    /\ disk \in {[DiskIdle EXCEPT !.pc = "start", !.files = files, !.output = output] :
                    files \in SUBSET InitialFiles, output \in {"in", "in/out", "out"}}
    /\ prep = PrepIdle

NextRuns == DiskList \/ DiskWrite \/ DiskAgain

SpecRuns == InitRuns /\ [][NextRuns]_vars

InitPrepare ==
    /\ parser = ParserInit
    /\ fed = 0
    /\ extract = ExtractIdle
    /\ agg = AggIdle
    /\ main = MainIdle
    /\ report = ReportIdle
    /\ dash = DashIdle
    /\ disk = DiskIdle
    /\ prep \in {[PrepIdle EXCEPT !.pc = "ready", !.reports = reports] :
                    reports \in SeqsUpTo(PrepReports, MaxPrepReports)}

NextPrepare == PrepParts \/ PrepDowntime

SpecPrepare == InitPrepare /\ [][NextPrepare]_vars

InitReport ==
    /\ parser = ParserInit
    /\ dash = DashIdle /\ disk = DiskIdle /\ prep = PrepIdle
    /\ fed = 0
    /\ extract = ExtractIdle
    /\ agg = AggIdle
    /\ main = MainIdle
    /\ report \in {With(calculate_running_hours(recs), LAMBDA ms :
                        [ReportIdle EXCEPT !.pc = "items", !.machine_stats = ms,
                                           !.todo = Visits(ms, 1)]) :
                    recs \in SeqsUpTo(RecordSet, MaxRecords)}

NextReport == ReportItem \/ ReportSort

SpecReport == InitReport /\ [][NextReport]_vars

InitMain ==
    /\ parser = ParserInit
    /\ dash = DashIdle /\ disk = DiskIdle /\ prep = PrepIdle
    /\ fed = 0
    /\ extract = ExtractIdle
    /\ agg = AggIdle
    /\ main \in {[MainIdle EXCEPT !.pc = "start", !.folder = f, !.html_files = files,
                                   !.output_ok = ok] :
                    f \in {"", "missing", "found"}, ok \in BOOLEAN,
                    files \in SeqsUpTo(DocSet, MaxFiles)}
    /\ main.folder # "found" => main.html_files = <<>>
    /\ report = ReportIdle

NextMain == MainStart \/ MainParse \/ MainReport

SpecMain == InitMain /\ [][NextMain]_vars

InitTokenizer ==
    /\ parser = ParserInit
    /\ dash = DashIdle /\ disk = DiskIdle /\ prep = PrepIdle
    /\ fed = 0
    /\ extract = ExtractIdle
    /\ agg = AggIdle
    /\ main = MainIdle
    /\ report = ReportIdle

InitExtract ==
    /\ parser = ParserInit
    /\ dash = DashIdle /\ disk = DiskIdle /\ prep = PrepIdle
    /\ fed = 0
    /\ extract \in {[pc |-> "loop", html_file |-> f, rows |-> rows, i |-> 1,
                     records |-> <<>>, result |-> <<>>] :
                        f \in FileSet, rows \in SeqsUpTo(RowSet, MaxRows)}
    /\ agg = AggIdle
    /\ main = MainIdle
    /\ report = ReportIdle

InitAggregate ==
    /\ parser = ParserInit
    /\ dash = DashIdle /\ disk = DiskIdle /\ prep = PrepIdle
    /\ fed = 0
    /\ extract = ExtractIdle
    /\ agg \in {[pc |-> "fold", records |-> recs, i |-> 1, machine_stats |-> EmptyStats] :
                    recs \in SeqsUpTo(RecordSet, MaxRecords)}
    /\ main = MainIdle
    /\ report = ReportIdle

NextTokenizer == StartTag \/ EndTag \/ Data

NextExtract == ExtractLoop \/ ExtractReturn

NextAggregate == AggFold \/ AggFinalize

SpecTokenizer == InitTokenizer /\ [][NextTokenizer]_vars

SpecExtract == InitExtract /\ [][NextExtract]_vars

SpecAggregate == InitAggregate /\ [][NextAggregate]_vars

Init ==
    \/ InitTokenizer \/ InitExtract \/ InitAggregate \/ InitMain \/ InitReport
    \/ InitDashboard \/ InitRuns \/ InitPrepare

Next ==
    \/ NextTokenizer \/ NextExtract \/ NextAggregate \/ NextMain \/ NextReport
    \/ NextDashboard \/ NextRuns \/ NextPrepare

Spec == Init /\ [][Next]_vars

----------------------------------------------------------------------------
(* Claims about the tokenizer.                                             *)

\* C5: whatever tags and text the tokenizer has been fed, every row of
\* parser.data has at least 10 cells; a row closed with fewer is not in it.
C5_RowsHaveMinCells ==
    \A i \in 1..Len(parser.data) : Len(RowOf(parser, parser.data[i])) >= MinCells

\* a row was kept, and a later row was closed with 1 to 9 cells and dropped
C5_Witness ==
    /\ Len(parser.data) >= 1
    /\ ~parser.in_tr
    /\ \A i \in 1..Len(parser.data) : parser.data[i] # parser.current_row
    /\ Len(RowOf(parser, parser.current_row)) \in 1..(MinCells - 1)

----------------------------------------------------------------------------
(* Claims about the aggregator.                                            *)

AggDone == agg.pc = "done"

\* the records of the input that name a machine, in input order
RecordsOf(machine) == SelectSeq(agg.records, LAMBDA r : r.machine = machine)

SamplesOf(machine) == SelectSeq(RecordsOf(machine), LAMBDA r : r.is_sample)

ProductionOf(machine) == SelectSeq(RecordsOf(machine), LAMBDA r : ~r.is_sample)

\* the sum of ok_parts over the first n records of a list
RECURSIVE PartsSum(_, _)
PartsSum(recs, n) == IF n = 0 THEN 0 ELSE PartsSum(recs, n - 1) + recs[n].ok_parts

\* the float sum of ok_parts * cycle_time over the first n records of a list,
\* added up from 0.0 in the order of the list
RECURSIVE SecondsSum(_, _)
SecondsSum(recs, n) ==
    IF n = 0 THEN FZero
    ELSE FAdd(SecondsSum(recs, n - 1), FMulInt(recs[n].cycle_time, recs[n].ok_parts))

\* C1: a machine with N >= 1 sample records has sample_seconds 28800 whatever N
\* and wherever the samples stand in the input, and sample_parts the sum of
\* their ok_parts; a machine without a sample record has sample_seconds 0.
C1_SampleSecondsOnce ==
    AggDone =>
        \A m \in DOMAIN agg.machine_stats.stats :
            With(SamplesOf(m), LAMBDA samples :
                /\ agg.machine_stats.stats[m].sample_seconds =
                       IF Len(samples) >= 1 THEN FFromInt(28800) ELSE FZero
                /\ agg.machine_stats.stats[m].sample_parts = PartsSum(samples, Len(samples)))

\* a machine whose first record is production and which has two samples later
C1_Witness ==
    /\ AggDone
    /\ \E m \in DOMAIN agg.machine_stats.stats :
        /\ Len(SamplesOf(m)) >= 2
        /\ ~RecordsOf(m)[1].is_sample
        /\ agg.machine_stats.stats[m].sample_parts > 0

\* C4: downtime_hours is never negative, and it is exactly 0 when
\* total_hours_with_samples is greater than available_capacity.
C4_DowntimeNotNegative ==
    AggDone =>
        \A m \in DOMAIN agg.machine_stats.stats :
            With(agg.machine_stats.stats[m], LAMBDA st :
                /\ FLe(FZero, st.downtime_hours)
                /\ FLt(FFromInt(st.available_capacity), st.total_hours_with_samples)
                       => st.downtime_hours = FZero)

\* a machine that ran longer than its capacity
C4_Witness ==
    /\ AggDone
    /\ \E m \in DOMAIN agg.machine_stats.stats :
        FLt(FFromInt(agg.machine_stats.stats[m].available_capacity),
            agg.machine_stats.stats[m].total_hours_with_samples)

\* C10: total_seconds is the sum of ok_parts * cycle_time over the machine's
\* records that are not samples, and total_parts the sum of their ok_parts; a
\* sample record adds to neither.
C10_ProductionTotals ==
    AggDone =>
        \A m \in DOMAIN agg.machine_stats.stats :
            With(ProductionOf(m), LAMBDA prod :
                /\ agg.machine_stats.stats[m].total_seconds = SecondsSum(prod, Len(prod))
                /\ agg.machine_stats.stats[m].total_parts = PartsSum(prod, Len(prod)))

\* a machine with production records and a sample record that has parts
C10_Witness ==
    /\ AggDone
    /\ \E m \in DOMAIN agg.machine_stats.stats :
        /\ Len(ProductionOf(m)) >= 2
        /\ \E i \in 1..Len(SamplesOf(m)) : SamplesOf(m)[i].ok_parts > 0

\* the orders a list of n records can be put in
Perms(n) == {p \in [1..n -> 1..n] : \A i, j \in 1..n : p[i] = p[j] => i = j}

Permuted(records, p) == [i \in 1..Len(records) |-> records[p[i]]]

\* the totals of a machine that are integers, sets, counts of shifts or the
\* sample constant
ExactTotals(st) ==
    <<st.total_parts, st.total_parts_with_samples, st.sample_parts, st.sample_seconds,
      st.shift_counts, st.available_capacity, st.dates, st.items, st.shifts>>

\* the float sum of running seconds and the values computed from it
RoundedTotals(st) ==
    <<st.total_seconds, st.downtime_hours, st.availability_percent, st.downtime_percent>>

\* the result for the input has, for every order of the same records, the same
\* machines with the same totals as picked by Totals
SameInAnyOrder(Totals(_)) ==
    \A p \in Perms(Len(agg.records)) :
        With(calculate_running_hours(Permuted(agg.records, p)).stats, LAMBDA other :
            /\ DOMAIN other = DOMAIN agg.machine_stats.stats
            /\ \A m \in DOMAIN other : Totals(other[m]) = Totals(agg.machine_stats.stats[m]))

\* C9 as stated: the result for any permutation of the records has, for every
\* machine, the same total_parts, total_parts_with_samples, sample_parts,
\* total_seconds, sample_seconds, shift_counts, available_capacity,
\* downtime_hours, availability_percent, downtime_percent, dates, items, shifts.
C9_AllTotalsOrderFree ==
    AggDone => SameInAnyOrder(LAMBDA st : <<ExactTotals(st), RoundedTotals(st)>>)

\* C9: the result for any permutation of the records has, for every machine,
\* the same total_parts, total_parts_with_samples, sample_parts, sample_seconds,
\* shift_counts, available_capacity, dates, items and shifts; total_seconds is a
\* float sum taken in input order and is left out, with the values derived
\* from it.
C9_ExactTotalsOrderFree == AggDone => SameInAnyOrder(ExactTotals)

\* three records of one machine whose float total depends on their order
C9_Witness ==
    /\ AggDone
    /\ Len(agg.records) = 3
    /\ \E p \in Perms(3) :
        \E m \in DOMAIN agg.machine_stats.stats :
            calculate_running_hours(Permuted(agg.records, p)).stats[m].total_seconds
                # agg.machine_stats.stats[m].total_seconds

----------------------------------------------------------------------------
(* Claims about the extractor.                                             *)

ExtractDone == extract.pc = "done"

\* the number of rows whose pass through the loop body has ended normally
Passed == extract.i - 1

\* the cycle-time text resolves to a number: it is not a sign of an empty
\* cell, and the first digits and points before an "s" spell a number
Resolves(text) ==
    /\ text # <<>>
    /\ Strip(text) \notin EmptyCycleTexts
    /\ With(CycleMatch(text), LAMBDA g : g # <<>> /\ IsFloatText(g))

\* a row with enough cells, a machine name and a cycle time that resolves
Qualifies(row) ==
    Len(row) >= MinCells /\ row[1].text # <<>> /\ Resolves(CellText(row, 7))

\* the number of qualifying rows among the first k
RECURSIVE Emitted(_, _)
Emitted(rows, k) ==
    IF k = 0 THEN 0
    ELSE Emitted(rows, k - 1) + (IF Qualifies(rows[k]) THEN 1 ELSE 0)

\* the text of a count cell is an integer once its commas are removed
IsCount(text) == PyInt(Remove(text, ",")).ok

RecordFor(row) == ExtractRow(row, FileDate(extract.html_file)).record

\* C2 as stated: whatever is wrong with the other rows, the list returned has
\* a record for every row of the document that has a machine name and a cycle
\* time that resolves.
C2_DefectStaysInRow ==
    ExtractDone =>
        \A k \in 1..Len(extract.rows) :
            Qualifies(extract.rows[k]) =>
                \E j \in 1..Len(extract.result) :
                    extract.result[j] = RecordFor(extract.rows[k])

\* C3 as stated: every record returned has a machine name and a cycle time, and
\* the records returned are those of the qualifying rows, one each, in the
\* order of the rows.
C3_OneRecordPerQualifyingRow ==
    ExtractDone =>
        /\ \A j \in 1..Len(extract.result) :
            extract.result[j].machine # <<>> /\ extract.result[j].cycle_time # FNone
        /\ Len(extract.result) = Emitted(extract.rows, Len(extract.rows))
        /\ \A k \in 1..Len(extract.rows) :
            Qualifies(extract.rows[k]) =>
                extract.result[Emitted(extract.rows, k)] = RecordFor(extract.rows[k])

\* C6: a qualifying row whose OK or NOK text is not an integer has its record
\* appended, with 0 in that field and every other field as it is for the same
\* row with a count in that cell.
C6_BadCountIsZero ==
    /\ Len(extract.records) = Emitted(extract.rows, Passed)
    /\ \A k \in 1..Passed :
        With(extract.rows[k], LAMBDA row :
            LET bad_ok  == ~IsCount(CellText(row, 4))
                bad_nok == ~IsCount(CellText(row, 5))
                clean   == RecordFor([row EXCEPT
                               ![5].text = IF bad_ok THEN Txt12 ELSE @,
                               ![6].text = IF bad_nok THEN Txt3 ELSE @])
                rec     == extract.records[Emitted(extract.rows, k)]
            IN  Qualifies(row) /\ (bad_ok \/ bad_nok) =>
                    /\ bad_ok => rec.ok_parts = 0
                    /\ bad_nok => rec.nok_parts = 0
                    /\ ~bad_ok => rec.ok_parts = clean.ok_parts
                    /\ ~bad_nok => rec.nok_parts = clean.nok_parts
                    /\ [rec EXCEPT !.ok_parts = 0, !.nok_parts = 0]
                         = [clean EXCEPT !.ok_parts = 0, !.nok_parts = 0])

\* the record of a row whose OK text is a word, with its NOK count kept
C6_Witness ==
    \E k \in 1..Passed :
        /\ Qualifies(extract.rows[k])
        /\ CellText(extract.rows[k], 4) = TxtWord
        /\ extract.records[Emitted(extract.rows, k)].ok_parts = 0
        /\ extract.records[Emitted(extract.rows, k)].nok_parts = 3

\* C7 as stated: every record built has ok_parts >= 0 and nok_parts >= 0.
C7_CountsNotNegative ==
    \A j \in 1..Len(extract.records) :
        extract.records[j].ok_parts >= 0 /\ extract.records[j].nok_parts >= 0

\* C8: the cycle_time of a record is the float read from the cycle-time cell
\* times 60, and is_sample holds exactly when cycle_time is 28800.0, which is
\* exactly when the float read is 480.
C8_CycleTimeInSeconds ==
    \A k \in 1..Passed :
        With(extract.rows[k], LAMBDA row :
            Qualifies(row) =>
                With2(extract.records[Emitted(extract.rows, k)],
                      PyFloat(CycleMatch(CellText(row, 7))), LAMBDA rec, minutes :
                    /\ rec.cycle_time = FMulInt(minutes, 60)
                    /\ rec.is_sample <=> (rec.cycle_time = FFromInt(28800))
                    /\ rec.is_sample <=> (minutes = FFromInt(480))))

\* a sample record read from "480.0s" and a record read from "479.9s"
C8_Witness ==
    /\ \E j \in 1..Len(extract.records) :
        extract.records[j].is_sample /\ extract.records[j].cycle_time = SampleSeconds
    /\ \E k \in 1..Passed :
        /\ CellText(extract.rows[k], 7) = Ct479p9
        /\ ~extract.records[Emitted(extract.rows, k)].is_sample

\* the sum of the values of a machine's shift_counts, over its shifts
RECURSIVE ShiftTotal(_, _)
ShiftTotal(counts, shifts) ==
    IF shifts = {} THEN 0
    ELSE With(CHOOSE sh \in shifts : TRUE, LAMBDA sh :
            counts[sh] + ShiftTotal(counts, shifts \ {sh}))

\* C11: available_capacity is 8 times the sum of the values of shift_counts,
\* and that sum is the number of the machine's input records, samples and
\* records with shift "Unknown" included.
C11_CapacityPerRecord ==
    AggDone =>
        \A m \in DOMAIN agg.machine_stats.stats :
            With(agg.machine_stats.stats[m], LAMBDA st :
                /\ DOMAIN st.shift_counts = {r.shift : r \in {RecordsOf(m)[i] : i \in 1..Len(RecordsOf(m))}}
                /\ ShiftTotal(st.shift_counts, DOMAIN st.shift_counts) = Len(RecordsOf(m))
                /\ st.available_capacity = 8 * ShiftTotal(st.shift_counts, DOMAIN st.shift_counts))

\* a machine with two records of the same date and shift, a sample and a
\* record with shift "Unknown": 8 hours for each of them
C11_Witness ==
    /\ AggDone
    /\ \E m \in DOMAIN agg.machine_stats.stats :
        With(RecordsOf(m), LAMBDA recs :
            /\ Len(recs) = 3
            /\ agg.machine_stats.stats[m].available_capacity = 24
            /\ \E i, j \in 1..3 :
                /\ i # j /\ recs[i].date = recs[j].date /\ recs[i].shift = recs[j].shift
                /\ recs[i].is_sample
            /\ \E i \in 1..3 : recs[i].shift = Unknown)

\* |x|
FAbs(x0) == With(x0, LAMBDA x : IF x.sg < 0 THEN FNeg(x) ELSE x)

\* x * 2^k, which is exact
FScale(x0, k) == With(x0, LAMBDA x : IF x.m = <<>> THEN x ELSE [x EXCEPT !.e = @ + k])

\* in every state of the fold, for every machine, total_parts_with_samples is
\* total_parts + sample_parts
PartsWithSamples ==
    \A m \in DOMAIN agg.machine_stats.stats :
        With(agg.machine_stats.stats[m], LAMBDA st :
            st.total_parts_with_samples = st.total_parts + st.sample_parts)

\* C25 as stated: every machine has total_parts_with_samples = total_parts +
\* sample_parts and, in the result, total_hours_with_samples = total_hours +
\* sample_hours.
C25_TotalsWithSamplesAddUp ==
    /\ PartsWithSamples
    /\ AggDone =>
           \A m \in DOMAIN agg.machine_stats.stats :
               With(agg.machine_stats.stats[m], LAMBDA st :
                   st.total_hours_with_samples = FAdd(st.total_hours, st.sample_hours))

\* C25: every machine has total_parts_with_samples = total_parts +
\* sample_parts; its total_hours_with_samples is total_hours + sample_hours when
\* it has no sample or no production seconds, and otherwise within
\* 2^-50 * (|total_hours| + sample_hours) of that sum.
C25_TotalsWithSamplesRounded ==
    /\ PartsWithSamples
    /\ AggDone =>
           \A m \in DOMAIN agg.machine_stats.stats :
               With(agg.machine_stats.stats[m], LAMBDA st :
               With(FAdd(st.total_hours, st.sample_hours), LAMBDA added :
                   /\ st.sample_seconds = FZero \/ st.total_seconds = FZero
                          => st.total_hours_with_samples = added
                   /\ FLe(FAbs(FSub(st.total_hours_with_samples, added)),
                          FScale(FAdd(FAbs(st.total_hours), st.sample_hours), -50))))

\* a machine with samples and production whose total_hours_with_samples is not
\* the float sum of its total_hours and sample_hours
C25_Witness ==
    /\ AggDone
    /\ \E m \in DOMAIN agg.machine_stats.stats :
        With(agg.machine_stats.stats[m], LAMBDA st :
            /\ st.sample_parts > 0
            /\ st.total_parts > 0
            /\ st.total_hours_with_samples # FAdd(st.total_hours, st.sample_hours))

\* C26: the machines of the result are the machines of the records, and each
\* has available_capacity >= 8.
C26_CapacityAtLeastEight ==
    AggDone =>
        /\ DOMAIN agg.machine_stats.stats =
               {agg.records[i].machine : i \in 1..Len(agg.records)}
        /\ \A m \in DOMAIN agg.machine_stats.stats :
               agg.machine_stats.stats[m].available_capacity >= 8

\* a result with a machine that has one record only, and so 8 hours
C26_Witness ==
    /\ AggDone
    /\ \E m \in DOMAIN agg.machine_stats.stats :
        /\ Len(RecordsOf(m)) = 1
        /\ agg.machine_stats.stats[m].available_capacity = 8

\* C27: downtime_hours is 0 exactly when availability_percent >= 100, which
\* is exactly when downtime_percent <= 0, and downtime_hours > 0 exactly when
\* downtime_percent > 0.
C27_DowntimeMeasuresAgree ==
    AggDone =>
        \A m \in DOMAIN agg.machine_stats.stats :
            With(agg.machine_stats.stats[m], LAMBDA st :
                /\ st.downtime_hours = FZero <=> FLe(FFromInt(100), st.availability_percent)
                /\ FLe(FFromInt(100), st.availability_percent)
                       <=> FLe(st.downtime_percent, FZero)
                /\ FLt(FZero, st.downtime_hours) <=> FLt(FZero, st.downtime_percent))

\* a machine above 100 percent: its downtime_percent is negative and its
\* downtime_hours 0
C27_Witness ==
    /\ AggDone
    /\ \E m \in DOMAIN agg.machine_stats.stats :
        With(agg.machine_stats.stats[m], LAMBDA st :
            /\ FLt(FFromInt(100), st.availability_percent)
            /\ FLt(st.downtime_percent, FZero)
            /\ st.downtime_hours = FZero)

----------------------------------------------------------------------------
(* Claims about main.                                                      *)

\* float() raises on the cell's number: digits and points before an "s" that
\* spell no number
Unparsable(text) ==
    /\ text # <<>>
    /\ Strip(text) \notin EmptyCycleTexts
    /\ With(CycleMatch(text), LAMBDA g : g # <<>> /\ ~IsFloatText(g))

\* a document that can be read and parsed
Usable(doc) ==
    doc.readable /\ \A k \in 1..Len(doc.rows) : ~Unparsable(CellText(doc.rows[k], 7))

\* the records of the first n rows of a document, for its qualifying rows
RECURSIVE RowRecords(_, _)
RowRecords(doc, n) ==
    IF n = 0 THEN <<>>
    ELSE IF Qualifies(doc.rows[n])
    THEN Append(RowRecords(doc, n - 1), ExtractRow(doc.rows[n], FileDate(doc.path)).record)
    ELSE RowRecords(doc, n - 1)

\* the records of the usable documents among the first n, in order
RECURSIVE Gathered(_, _)
Gathered(files, n) ==
    IF n = 0 THEN <<>>
    ELSE Gathered(files, n - 1)
         \o (IF Usable(files[n]) THEN RowRecords(files[n], Len(files[n].rows)) ELSE <<>>)

\* C13: no document ends main with an exception; a document that cannot be
\* read or parsed adds nothing, and when the loop is over all_records holds the
\* records of every other document.
C13_BadDocumentSkipped ==
    /\ main.pc # "crashed"
    /\ main.pc = "parse" => main.all_records = Gathered(main.html_files, main.i - 1)
    /\ main.pc = "done" =>
           main.all_records = Gathered(main.html_files, Len(main.html_files))

\* a run that has ended after a document that cannot be read, followed by a
\* document with records
C13_Witness ==
    /\ main.pc = "done"
    /\ Len(main.html_files) = 2
    /\ ~main.html_files[1].readable
    /\ Len(main.all_records) >= 1

\* C14 as stated: a run that ends with no record extracted has written no
\* report and has given a message.
C14_NoReportFromEmptyInput ==
    main.pc = "done" /\ main.all_records = <<>> =>
        main.written = {} /\ main.message # ""

----------------------------------------------------------------------------
(* More claims about the extractor.                                        *)

\* the text has no number followed by "s": no digit starts digits and points
\* that blanks and an "s" follow
NoNumberS(text) == ~\E i \in 1..Len(text) : text[i] \in Digits /\ CycleMatchAt(text, i)

\* C15 as stated: a row whose cycle-time text is blank, a hyphen, "N/A", an
\* em-dash or any text without a number followed by "s" gets a null cycle time,
\* so the loop goes past it, and no record is appended for it.
C15_NoNumberNoRecord ==
    /\ \A k \in 1..Len(extract.rows) :
        NoNumberS(CellText(extract.rows[k], 7)) => ~(ExtractDone /\ extract.i = k)
    /\ Len(extract.records) =
         Cardinality({k \in 1..Passed :
                        /\ extract.rows[k][1].text # <<>>
                        /\ ~NoNumberS(CellText(extract.rows[k], 7))})

\* the first run of 8 digits of a path as YYYY-MM-DD, or "Unknown"
RECURSIVE DateFrom(_, _)
DateFrom(path, i) ==
    IF i + 7 > Len(path) THEN Unknown
    ELSE IF \A j \in i..(i + 7) : path[j] \in Digits
    THEN <<path[i], path[i + 1], path[i + 2], path[i + 3], "-", path[i + 4], path[i + 5],
           "-", path[i + 6], path[i + 7]>>
    ELSE DateFrom(path, i + 1)

\* C17: every record of a document has the same date, the first run of 8
\* digits of the document's path as YYYY-MM-DD or "Unknown" when it has none,
\* whatever the rows hold.
C17_DateFromPath ==
    \A j \in 1..Len(extract.records) :
        extract.records[j].date = DateFrom(extract.html_file, 1)

\* two records of a document whose path has two runs of 8 digits
C17_Witness ==
    /\ extract.html_file = PathTwoRuns
    /\ Len(extract.records) = 2
    /\ extract.records[1].machine # extract.records[2].machine
    /\ extract.records[2].date = <<"2", "0", "2", "3", "-", "1", "2", "-", "0", "1">>

----------------------------------------------------------------------------
(* More claims about the tokenizer.                                        *)

\* C19 as stated: in every reachable state in_td implies in_tr and in_tr
\* implies in_tbody.
C19_FlagsNested ==
    /\ parser.in_td => parser.in_tr
    /\ parser.in_tr => parser.in_tbody

\* the row being collected is one of the rows of parser.data
OpenRowInData(p) == \E i \in 1..Len(p.data) : p.data[i] = p.current_row

C21_EmittedRowFrozen ==
    [][\A i \in 1..Len(parser.data) :
           /\ i <= Len(parser'.data)
           /\ DataRows(parser')[i] = DataRows(parser)[i]]_vars

----------------------------------------------------------------------------
(* Claims about the item statistics of the report.                         *)

ReportDone == report.pc = "done"

\* the records of an item, in the order the report visits them
RecordsOfItem(item) ==
    [k \in 1..Len(SelectSeq(report.todo, LAMBDA v : v.record.item = item)) |->
        SelectSeq(report.todo, LAMBDA v : v.record.item = item)[k].record]

\* the float sum of (ok_parts * cycle_time) / 3600 over the first n records of
\* a list, added up from 0.0 in the order of the list
RECURSIVE HoursSum(_, _)
HoursSum(recs, n) ==
    IF n = 0 THEN FZero
    ELSE FAdd(HoursSum(recs, n - 1),
              FDivInt(FMulInt(recs[n].cycle_time, recs[n].ok_parts), 3600))

\* C18: for every item, total_parts and total_hours are sums over its records
\* that are not samples, is_sample holds exactly when one of its records is a
\* sample, and cycle_times holds the cycle times of all its records.
C18_ItemTotalsWithoutSamples ==
    ReportDone =>
        /\ DOMAIN report.item_stats.stats =
               {report.todo[k].record.item : k \in 1..Len(report.todo)}
        /\ \A item \in DOMAIN report.item_stats.stats :
            With2(report.item_stats.stats[item], RecordsOfItem(item), LAMBDA st, recs :
                With(SelectSeq(recs, LAMBDA r : ~r.is_sample), LAMBDA prod :
                    /\ st.total_parts = PartsSum(prod, Len(prod))
                    /\ st.total_hours = HoursSum(prod, Len(prod))
                    /\ st.is_sample <=> \E k \in 1..Len(recs) : recs[k].is_sample
                    /\ st.cycle_times = {recs[k].cycle_time : k \in 1..Len(recs)}))

\* an item with two production records and a sample record that has parts
C18_Witness ==
    /\ ReportDone
    /\ \E item \in DOMAIN report.item_stats.stats :
        With(RecordsOfItem(item), LAMBDA recs :
            /\ Len(recs) = 3
            /\ Cardinality({k \in 1..3 : recs[k].is_sample /\ recs[k].ok_parts > 0}) = 1
            /\ report.item_stats.stats[item].is_sample
            /\ report.item_stats.stats[item].total_parts > 0)

-----------------------------------------------------------------------------
(* Claims about the dashboard.                                             *)

\* C22: in the open dashboard, the details shown under the machine selector
\* are those of the machine whose name is the chosen option: its name is the
\* heading and the hours and parts are that machine's in machineData.
C22_SelectorShowsChosenMachine ==
    (dash.pc = "open" /\ dash.machineSelector >= 0) =>
        With2(dash.page.options[dash.machineSelector + 1], dash.details[1],
              LAMBDA chosen, shown :
            /\ shown.name = chosen
            /\ shown.total_hours = JsToFixed(dash.page.machineData.data[chosen].total_hours, 2)
            /\ shown.production_parts = dash.page.machineData.data[chosen].production_parts)

\* the values of the five cards the 'All Data' view is to restore
CardValues(cards) ==
    <<cards.production, cards.sample, cards.total, cards.downtime, cards.availability>>

\* C23: whenever the open dashboard is in the 'All Data' view, whatever views
\* were shown before, the cards Production Hours, Sample Hours, Total Hours,
\* Downtime and Availability show the values the page was written with.
C23_AllDataRestoresCards ==
    (dash.pc = "open" /\ dash.filterType = "all") =>
        CardValues(dash.cards) = CardValues(dash.page.cards)

\* the records of `machine` among `records` that a month or a week filter
\* keeps; an empty filter value (no month or week to choose) keeps them all
MatchingRecords(records, machine, filterType, filterValue, tz) ==
    SelectSeq(records, LAMBDA r :
        /\ r.machine = machine
        /\ \/ filterValue = <<>>
           \/ /\ r.date # <<>>
              /\ IF filterType = "month" THEN StartsWith(r.date, filterValue)
                 ELSE getWeekLabel(r.date, tz) = filterValue)

\* the filter value of the view the dashboard shows
ViewValue(d) == IF d.filterType = "month" THEN d.monthFilter ELSE d.weekFilter

\* the values that are sums over the matching records, and the capacity
SameSums(entry, stats) ==
    /\ entry.total_hours = stats.total_hours
    /\ entry.sample_hours = stats.sample_hours
    /\ entry.production_parts = stats.total_parts
    /\ entry.sample_parts = stats.sample_parts
    /\ entry.available_capacity = stats.available_capacity

\* C24 as stated: in a month or week view every machine with a matching
\* record has the values calculate_running_hours returns for its matching
\* records, and a machine with none is left out.
C24_FilterEqualsRecalculation ==
    (dash.pc = "open" /\ dash.filterType # "all" /\ dash.filteredData # <<>>) =>
        \A machine \in DOMAIN dash.page.machineData.data :
            With2(MatchingRecords(dash.records, machine, dash.filterType,
                                  ViewValue(dash), dash.tz),
                  dash.filteredData[1], LAMBDA subset, filteredData :
                IF subset = <<>>
                THEN machine \notin DOMAIN filteredData.data
                ELSE /\ machine \in DOMAIN filteredData.data
                     /\ With2(filteredData.data[machine],
                              calculate_running_hours(subset).stats[machine],
                              LAMBDA entry, stats :
                            /\ SameSums(entry, stats)
                            /\ entry.downtime_hours = stats.downtime_hours
                            /\ entry.availability_percent = stats.availability_percent
                            /\ entry.downtime_percent = stats.downtime_percent))

\* C24, amended: as stated for the hours, the parts and the capacity and for
\* the machines left out; downtime hours, availability and downtime percent
\* are calculate_running_hours's formulas applied to total_hours +
\* sample_hours, which is not always its total_hours_with_samples.
C24_FilterEqualsRecalculationOfSum ==
    (dash.pc = "open" /\ dash.filterType # "all" /\ dash.filteredData # <<>>) =>
        \A machine \in DOMAIN dash.page.machineData.data :
            With2(MatchingRecords(dash.records, machine, dash.filterType,
                                  ViewValue(dash), dash.tz),
                  dash.filteredData[1], LAMBDA subset, filteredData :
                IF subset = <<>>
                THEN machine \notin DOMAIN filteredData.data
                ELSE /\ machine \in DOMAIN filteredData.data
                     /\ With2(filteredData.data[machine],
                              calculate_running_hours(subset).stats[machine],
                              LAMBDA entry, stats :
                        With2(FAdd(stats.total_hours, stats.sample_hours),
                              stats.available_capacity, LAMBDA hours, capacity :
                        With(IF capacity > 0
                             THEN FMulInt(FDivInt(hours, capacity), 100)
                             ELSE FZero, LAMBDA availability :
                            /\ SameSums(entry, stats)
                            /\ entry.downtime_hours
                                   = Max0(FSub(FFromInt(capacity), hours))
                            /\ entry.availability_percent = availability
                            /\ entry.downtime_percent
                                   = FSub(FFromInt(100), availability)))))

\* a month view of a machine whose matching records are a sample and
\* production, where the two sums of hours differ
C24_Witness ==
    /\ dash.pc = "open"
    /\ dash.filterType = "month"
    /\ dash.filteredData # <<>>
    /\ M2 \in DOMAIN dash.filteredData[1].data
    /\ dash.filteredData[1].data[M2].sample_parts > 0
    /\ dash.filteredData[1].data[M2].production_parts > 0
    /\ dash.filteredData[1].data[M2].total_hours_with_samples
           # calculate_running_hours(dash.records).stats[M2].total_hours_with_samples

-----------------------------------------------------------------------------
(* Claims about repeated runs.                                             *)

\* C28: in every run, none of the files taken as input documents is a
\* dashboard that was on the disk when the run listed the input folder, the
\* dashboards of earlier runs in an output folder below the input folder
\* included.
C28_EarlierDashboardsNotInput ==
    disk.html_files \cap disk.earlier = {}

\* a later run has listed its input, with the dashboard of an earlier run of
\* the model in the folders it walked
C28_Witness ==
    /\ disk.pc = "listed"
    /\ disk.run >= 2
    /\ disk.html_files # {}
    /\ \E f \in Walk(disk.earlier) : f \notin InitialFiles

-----------------------------------------------------------------------------
(* Claims about the chart data of the second script.                       *)

\* C29: for every list of reports, the empty list and reports without parts
\* included, prepare_monthly_parts_data returns the sums of the numeric
\* ok_parts and nok_parts of the reports, each truncated to an integer.
C29_PartsAreSums ==
    prep.parts # <<>> =>
        prep.parts[1] = PartsTotals(prep.reports, Len(prep.reports))

\* C30: when the reports name at least one machine, every machine of the
\* result has one list per discovered category, and every list has one
\* value per report.
C30_OneValuePerReport ==
    (prep.downtime # <<>> /\ AllMachines(prep.reports) # {}) =>
        With(prep.downtime[1], LAMBDA machine_data :
            /\ DOMAIN machine_data.val = AllMachines(prep.reports)
            /\ \A machine \in DOMAIN machine_data.val :
                /\ DOMAIN machine_data.val[machine].val = AllCategories(prep.reports)
                /\ \A category \in AllCategories(prep.reports) :
                       Len(machine_data.val[machine].val[category]) = Len(prep.reports))

====
